---- MODULE Spec2Model ----
(***************************************************************************)
(* State-machine model of swagger_test_case_generator: the generation      *)
(* orchestrator (generator.py), the record validators (generator.py,       *)
(* utils.py) and the TestCase model (models.py).                           *)
(*                                                                         *)
(* Python strings are sequences of one-character strings, so that          *)
(* slicing, strip(), upper() and "|".join() are computed, not assumed.     *)
(* A JSON value held under a dict key is a record [k, s]: k is its kind    *)
(* ("absent": the key is missing, "null": None, "str", "enum": a member    *)
(* of a str-valued Enum) and s its text.                                   *)
(***************************************************************************)
EXTENDS Integers, Sequences, FiniteSets, TLC

\* ------------------------------------------------------------------ bounds

\* Number of operations that survive filtering (len(operations)).
NumOps == 2

\* Largest configured llm.retry_attempts explored (config.max_retries).
MaxRetries == 2

\* Largest configured llm.max_concurrent_requests explored.
MaxConcurrent == 1

\* Largest number of failed attempts and failed payload builds in one run.
MaxFaults == 2

\* llm.retry_delay of Config.defaults, in seconds.
DefaultRetryDelay == 2

\* llm.retry_attempts of Config.defaults.
DefaultRetryAttempts == 3

\* ----------------------------------------------------------- JSON values

Absent == [k |-> "absent", s |-> <<>>]

Null == [k |-> "null", s |-> <<>>]

Str(x) == [k |-> "str", s |-> x]

Enum(x) == [k |-> "enum", s |-> x]

\* Python truthiness of a value read from a dict or an attribute.
Truthy(v) == v.k \in {"str", "enum"} /\ v.s # <<>>

\* dict.get(key, default): the default only replaces a missing key.
Get(v, default) == IF v.k = "absent" THEN default ELSE v

IsStr(v) == v.k \in {"str", "enum"}

\* ------------------------------------------------------------ enum values

Positive == <<"P", "o", "s", "i", "t", "i", "v", "e">>

Negative == <<"N", "e", "g", "a", "t", "i", "v", "e">>

Unknown == <<"U", "n", "k", "n", "o", "w", "n">>

Medium == <<"M", "e", "d", "i", "u", "m">>

High == <<"H", "i", "g", "h">>

Low == <<"L", "o", "w">>

EP == <<"E", "P">>

BVA == <<"B", "V", "A">>

ErrorGuessing == <<"E", "r", "r", "o", "r", " ", "G", "u", "e", "s", "s", "i", "n", "g">>

DecisionTable == <<"D", "e", "c", "i", "s", "i", "o", "n", " ", "T", "a", "b", "l", "e", " ", "T", "e", "s", "t", "i", "n", "g">>

Pairwise == <<"P", "a", "i", "r", "w", "i", "s", "e", " ", "T", "e", "s", "t", "i", "n", "g">>

StateTransition == <<"S", "t", "a", "t", "e", " ", "T", "r", "a", "n", "s", "i", "t", "i", "o", "n", " ", "T", "e", "s", "t", "i", "n", "g">>

TestType == {Positive, Negative}

Priority == {High, Medium, Low}

DesignTechnique == {EP, BVA, ErrorGuessing, DecisionTable, Pairwise, StateTransition}

\* Default title of TestCase.__init__.
UntitledTestCase == <<"U", "n", "t", "i", "t", "l", "e", "d", " ", "T", "e", "s", "t", " ", "C", "a", "s", "e">>

\* Default title of _salvage_case.
Untitled == <<"U", "n", "t", "i", "t", "l", "e", "d">>

\* Placeholder _salvage_case gives a step that has no expected_result key.
VerifyTheResult == <<"V", "e", "r", "i", "f", "y", " ", "t", "h", "e", " ", "r", "e", "s", "u", "l", "t">>

\* ------------------------------------------------------- string helpers

Min(a, b) == IF a < b THEN a ELSE b

\* Number of characters of title and first-step texts that enter the key.
KeyPrefixLen == 100

\* s[:n]
Prefix(s, n) == SubSeq(s, 1, Min(n, Len(s)))

IsSpace(c) == c \in {" ", "\n", "\t"}

RECURSIVE LStrip(_)
LStrip(s) == IF s # <<>> /\ IsSpace(Head(s)) THEN LStrip(Tail(s)) ELSE s

RECURSIVE RStrip(_)
RStrip(s) ==
    IF s # <<>> /\ IsSpace(s[Len(s)]) THEN RStrip(SubSeq(s, 1, Len(s) - 1)) ELSE s

\* str.strip()
Strip(s) == RStrip(LStrip(s))

\* str.upper() on one character, for the letters the inputs use.
UpperChar(c) ==
    CASE c = "g" -> "G"
      [] c = "e" -> "E"
      [] c = "t" -> "T"
      [] c = "p" -> "P"
      [] c = "o" -> "O"
      [] c = "s" -> "S"
      [] OTHER -> c

\* str.upper()
Upper(s) == [i \in 1..Len(s) |-> UpperChar(s[i])]

\* "|".join(parts)
RECURSIVE Join(_)
Join(parts) ==
    IF parts = <<>> THEN <<>>
    ELSE IF Len(parts) = 1 THEN parts[1]
    ELSE parts[1] \o <<"|">> \o Join(Tail(parts))

\* ------------------------------------------------------ candidate records

\* A step as the service wrote it: a dict with optional keys, or another
\* JSON value (k = "other").
RawStep(a, e) == [k |-> "dict", action |-> a, expected_result |-> e]

NonDictStep == [k |-> "other", action |-> Absent, expected_result |-> Absent]

\* The test_steps value: a list of steps, null, or a missing key.
Steps(l) == [k |-> "list", l |-> l]

NoSteps == [k |-> "absent", l |-> <<>>]

NullSteps == [k |-> "null", l |-> <<>>]

\* _is_test_case_like: at least 3 of the 5 signature keys are present.
IsTestCaseLike(obj) ==
    /\ obj.k = "dict"
    /\ Cardinality({f \in {"title", "test_steps", "test_type", "api_path", "http_method"} :
                      obj[f].k # "absent"}) >= 3

\* ---------------------------------------------------------- TestCaseSchema

\* TestStepSchema: action and expected_result are required strings.
StepSchemaValid(step) ==
    /\ step.k = "dict"
    /\ step.action.k = "str"
    /\ step.expected_result.k = "str"

\* TestCaseSchema(**case) does not raise ValidationError.
TestCaseSchemaValid(case) ==
    /\ case.title.k = "str"
    /\ case.description.k \in {"absent", "str"}
    /\ case.preconditions.k \in {"absent", "str"}
    /\ case.test_type.k = "str" /\ case.test_type.s \in TestType
    /\ case.design_technique.k = "str" /\ case.design_technique.s \in DesignTechnique
    /\ case.api_path.k = "str"
    /\ case.http_method.k = "str"
    /\ \/ case.priority.k = "absent"
       \/ case.priority.k = "str" /\ case.priority.s \in Priority
    /\ case.test_steps.k = "list"
    /\ Len(case.test_steps.l) >= 1
    /\ \A i \in 1..Len(case.test_steps.l) : StepSchemaValid(case.test_steps.l[i])

\* validated.model_dump(): defaults filled, enum fields are Enum members.
ModelDump(case) ==
    [k |-> "dict",
     title |-> case.title,
     description |-> Get(case.description, Str(<<>>)),
     preconditions |-> Get(case.preconditions, Str(<<>>)),
     test_type |-> Enum(case.test_type.s),
     design_technique |-> Enum(case.design_technique.s),
     api_path |-> case.api_path,
     http_method |-> case.http_method,
     priority |-> IF case.priority.k = "absent" THEN Enum(Medium) ELSE Enum(case.priority.s),
     test_steps |-> Steps([i \in 1..Len(case.test_steps.l) |->
                        RawStep(case.test_steps.l[i].action,
                                case.test_steps.l[i].expected_result)])]

\* ------------------------------------------------------------ _salvage_case

\* Steps kept by _salvage_case: dict steps whose action is truthy.
RECURSIVE SalvageSteps(_)
SalvageSteps(steps) ==
    IF steps = <<>> THEN <<>>
    ELSE LET step == Head(steps)
             rest == SalvageSteps(Tail(steps))
         IN IF step.k = "dict" /\ Truthy(step.action)
            THEN <<RawStep(Get(step.action, Str(<<>>)),
                           Get(step.expected_result, Str(VerifyTheResult)))>> \o rest
            ELSE rest

\* _salvage_case: <<>> for None, else a one-element sequence.
SalvageCase(case) ==
    IF ~(Truthy(case.title) /\ case.test_steps.k = "list" /\ case.test_steps.l # <<>>)
    THEN <<>>
    ELSE LET valid_steps == SalvageSteps(case.test_steps.l)
         IN IF valid_steps = <<>> THEN <<>>
            ELSE <<[k |-> "dict",
                    title |-> Get(case.title, Str(Untitled)),
                    description |-> Get(case.description, Str(<<>>)),
                    preconditions |-> Get(case.preconditions, Str(<<>>)),
                    test_type |-> Get(case.test_type, Str(Unknown)),
                    design_technique |-> Get(case.design_technique, Str(Unknown)),
                    api_path |-> Get(case.api_path, Str(<<>>)),
                    http_method |-> Get(case.http_method, Str(<<>>)),
                    priority |-> Get(case.priority, Str(Medium)),
                    test_steps |-> Steps(valid_steps)]>>

\* One iteration of the loop of _validate_cases: what a case adds to valid_cases.
ValidateCase(case) ==
    IF case.k # "dict" THEN <<>>
    ELSE IF TestCaseSchemaValid(case) THEN <<ModelDump(case)>>
    ELSE IF IsTestCaseLike(case) THEN SalvageCase(case)
    ELSE <<>>

\* _validate_cases
RECURSIVE ValidateCases(_)
ValidateCases(cases) ==
    IF cases = <<>> THEN <<>>
    ELSE ValidateCase(Head(cases)) \o ValidateCases(Tail(cases))

\* ------------------------------------------------------ TestCase (models.py)

\* _normalize_enum without the "Unknown" fallback.
NormalizeEnumNoFallback(value) == value.s

\* TestCase._normalize_enum
NormalizeEnum(value) ==
    IF value.k = "enum" THEN value.s
    ELSE IF Truthy(value) THEN value.s
    ELSE Unknown

\* TestCase._normalize_test_steps: dict steps are kept, with "" for a
\* missing key; any other element is skipped.
RECURSIVE NormalizeTestSteps(_)
NormalizeTestSteps(steps) ==
    IF steps = <<>> THEN <<>>
    ELSE LET step == Head(steps)
             rest == NormalizeTestSteps(Tail(steps))
         IN IF step.k = "dict"
            THEN <<[action |-> Get(step.action, Str(<<>>)),
                    expected_result |-> Get(step.expected_result, Str(<<>>))]>> \o rest
            ELSE rest

\* TestCase.__init__ raises AttributeError when http_method is present
\* and not a string: None has no upper().
TestCaseRaises(data) == ~IsStr(Get(data.http_method, Str(<<>>)))

\* TestCase.__init__ (created_date, a timestamp, is left out).
TestCase(data) ==
    [title |-> Get(data.title, Str(UntitledTestCase)),
     description |-> Get(data.description, Str(<<>>)),
     preconditions |-> Get(data.preconditions, Str(<<>>)),
     test_steps |-> IF data.test_steps.k = "list"
                    THEN NormalizeTestSteps(data.test_steps.l) ELSE <<>>,
     test_type |-> NormalizeEnum(Get(data.test_type, Str(Unknown))),
     design_technique |-> NormalizeEnum(Get(data.design_technique, Str(Unknown))),
     api_path |-> Get(data.api_path, Str(<<>>)),
     http_method |-> Upper(Get(data.http_method, Str(<<>>)).s),
     priority |-> NormalizeEnum(Get(data.priority, Str(Medium)))]

\* validate_test_case without its two checks of test_steps.
ValidateTestCaseNoSteps(test_case) ==
    /\ Truthy(test_case.title)
    /\ test_case.test_type # <<>>
    /\ Truthy(test_case.api_path)
    /\ test_case.http_method # <<>>

\* validate_test_case (utils.py)
ValidateTestCase(test_case) ==
    /\ Truthy(test_case.title)
    /\ test_case.test_steps # <<>>
    /\ test_case.test_type # <<>>
    /\ Truthy(test_case.api_path)
    /\ test_case.http_method # <<>>
    /\ Len(test_case.test_steps) # 0

\* get_unique_key raises TypeError when a text it slices or joins is None.
UniqueKeyRaises(test_case) ==
    \/ /\ test_case.test_steps # <<>>
       /\ \/ ~IsStr(test_case.test_steps[1].action)
          \/ ~IsStr(test_case.test_steps[1].expected_result)
    \/ ~IsStr(test_case.title)
    \/ ~IsStr(test_case.api_path)

\* get_unique_key that joins the whole title and first-step texts.
GetUniqueKeyUncut(test_case) ==
    LET first_step_action ==
            IF test_case.test_steps # <<>>
            THEN test_case.test_steps[1].action.s ELSE <<>>
        first_step_result ==
            IF test_case.test_steps # <<>>
            THEN test_case.test_steps[1].expected_result.s ELSE <<>>
    IN Join(<<test_case.api_path.s,
              test_case.http_method,
              test_case.test_type,
              test_case.design_technique,
              Strip(test_case.title.s),
              Strip(first_step_action),
              Strip(first_step_result)>>)

\* TestCase.get_unique_key
GetUniqueKey(test_case) ==
    LET first_step_action ==
            IF test_case.test_steps # <<>>
            THEN Prefix(test_case.test_steps[1].action.s, KeyPrefixLen) ELSE <<>>
        first_step_result ==
            IF test_case.test_steps # <<>>
            THEN Prefix(test_case.test_steps[1].expected_result.s, KeyPrefixLen) ELSE <<>>
    IN Join(<<test_case.api_path.s,
              test_case.http_method,
              test_case.test_type,
              test_case.design_technique,
              Strip(Prefix(test_case.title.s, KeyPrefixLen)),
              Strip(first_step_action),
              Strip(first_step_result)>>)

\* ------------------------------------------------ _process_generated_cases

\* What lines 738-751 make of one case: nothing for a non-dict ("skipped"),
\* an exception ("raised"), a TestCase that fails validate_test_case
\* ("invalid"), or a valid TestCase with its unique key (key_raised when
\* get_unique_key raises).
Candidate(kind, test_case, key_raised, unique_key) ==
    [kind |-> kind, test_case |-> test_case, key_raised |-> key_raised,
     unique_key |-> unique_key]

\* Lines 738-751 of _process_generated_cases for one case, and the key line
\* 755 computes for it; none of it depends on what was admitted before.
BuildCase(case_data, path, method) ==
    IF case_data.k # "dict" THEN Candidate("skipped", <<>>, FALSE, <<>>)
    ELSE LET data == [case_data EXCEPT
                        !.api_path = Get(case_data.api_path, Str(path)),
                        !.http_method = Get(case_data.http_method, Str(method))]
         IN IF TestCaseRaises(data) THEN Candidate("raised", <<>>, FALSE, <<>>)
            ELSE IF ~ValidateTestCase(TestCase(data))
            THEN Candidate("invalid", <<>>, FALSE, <<>>)
            ELSE IF UniqueKeyRaises(TestCase(data))
            THEN Candidate("valid", TestCase(data), TRUE, <<>>)
            ELSE Candidate("valid", TestCase(data), FALSE,
                           GetUniqueKey(TestCase(data)))

\* ProcessCase with insert(0, ...) for append: a valid record is put in
\* front of the records admitted before it.
ProcessCasePrepending(acc, built, dedup) ==
    IF acc.raised \/ built.kind \in {"skipped", "invalid"} THEN acc
    ELSE IF built.kind = "raised" THEN [acc EXCEPT !.raised = TRUE]
    ELSE IF ~dedup
    THEN [acc EXCEPT !.test_cases = <<built.test_case>> \o @,
                     !.valid_count = @ + 1]
    ELSE IF built.key_raised THEN [acc EXCEPT !.raised = TRUE]
    ELSE IF built.unique_key \notin acc.seen_keys
    THEN [acc EXCEPT !.seen_keys = @ \cup {built.unique_key},
                     !.test_cases = <<built.test_case>> \o @,
                     !.valid_count = @ + 1]
    ELSE acc

\* ProcessCase without the test of seen_keys: every valid record is appended.
ProcessCaseNoSeenKeys(acc, built, dedup) ==
    IF acc.raised \/ built.kind \in {"skipped", "invalid"} THEN acc
    ELSE IF built.kind = "raised" THEN [acc EXCEPT !.raised = TRUE]
    ELSE [acc EXCEPT !.test_cases = Append(@, built.test_case),
                     !.valid_count = @ + 1]

\* ProcessCase without the test of enable_deduplication: the key set is
\* consulted and filled whatever the configuration says.
ProcessCaseAlwaysDedup(acc, built, dedup) ==
    IF acc.raised \/ built.kind \in {"skipped", "invalid"} THEN acc
    ELSE IF built.kind = "raised" THEN [acc EXCEPT !.raised = TRUE]
    ELSE IF built.key_raised THEN [acc EXCEPT !.raised = TRUE]
    ELSE IF built.unique_key \notin acc.seen_keys
    THEN [acc EXCEPT !.seen_keys = @ \cup {built.unique_key},
                     !.test_cases = Append(@, built.test_case),
                     !.valid_count = @ + 1]
    ELSE acc

\* ProcessCase without seen_keys.add: a new record is appended and its key
\* is left out of the key set.
ProcessCaseForgettingKey(acc, built, dedup) ==
    IF acc.raised \/ built.kind \in {"skipped", "invalid"} THEN acc
    ELSE IF built.kind = "raised" THEN [acc EXCEPT !.raised = TRUE]
    ELSE IF ~dedup
    THEN [acc EXCEPT !.test_cases = Append(@, built.test_case),
                     !.valid_count = @ + 1]
    ELSE IF built.key_raised THEN [acc EXCEPT !.raised = TRUE]
    ELSE IF built.unique_key \notin acc.seen_keys
    THEN [acc EXCEPT !.test_cases = Append(@, built.test_case),
                     !.valid_count = @ + 1]
    ELSE acc

\* The body of the loop of _process_generated_cases for one case, built by
\* BuildCase, from the accumulated state
\* acc = [test_cases, seen_keys, valid_count, raised].
ProcessCase(acc, built, dedup) ==
    IF acc.raised \/ built.kind \in {"skipped", "invalid"} THEN acc
    ELSE IF built.kind = "raised" THEN [acc EXCEPT !.raised = TRUE]
    ELSE IF ~dedup
    THEN [acc EXCEPT !.test_cases = Append(@, built.test_case),
                     !.valid_count = @ + 1]
    ELSE IF built.key_raised THEN [acc EXCEPT !.raised = TRUE]
    ELSE IF built.unique_key \notin acc.seen_keys
    THEN [acc EXCEPT !.seen_keys = @ \cup {built.unique_key},
                     !.test_cases = Append(@, built.test_case),
                     !.valid_count = @ + 1]
    ELSE acc

\* The loop of _process_generated_cases over the cases, in order; an
\* exception leaves what earlier iterations admitted.
RECURSIVE ProcessCases(_, _, _)
ProcessCases(acc, built, dedup) ==
    IF built = <<>> THEN acc
    ELSE ProcessCases(ProcessCase(acc, Head(built), dedup), Tail(built), dedup)

\* ------------------------------------------------------------ JSON (json.loads)

\* A JSON array and a JSON object as json.loads returns them: a list, and
\* a dict given by its keys and their values in the order of the text.
List(l) == [k |-> "list", l |-> l]

Dict(keys, vals) == [k |-> "obj", keys |-> keys, vals |-> vals]

\* The result of one parsing step: the value read and the index after it.
Read(v, i) == [ok |-> TRUE, v |-> v, i |-> i]

NotRead == [ok |-> FALSE, v |-> Null, i |-> 0]

\* Whitespace between JSON tokens.
RECURSIVE SkipSpace(_, _)
SkipSpace(s, i) ==
    IF i <= Len(s) /\ s[i] \in {" ", "\n", "\t", "\r"} THEN SkipSpace(s, i + 1) ELSE i

\* s[i:].startswith(word)
StartsWith(s, i, word) ==
    /\ i + Len(word) - 1 <= Len(s)
    /\ SubSeq(s, i, i + Len(word) - 1) = word

\* The character an escape sequence stands for (\uXXXX is not modelled).
Unescape(c) ==
    CASE c = "n" -> "\n"
      [] c = "t" -> "\t"
      [] c = "r" -> "\r"
      [] OTHER -> c

\* A string from the index after its opening quote: it ends at the first
\* unescaped quote; a control character inside it is an error.
RECURSIVE ReadString(_, _, _)
ReadString(s, i, acc) ==
    IF i > Len(s) THEN NotRead
    ELSE IF s[i] = "\"" THEN Read(Str(acc), i + 1)
    ELSE IF s[i] = "\\"
    THEN IF i + 1 <= Len(s) /\ s[i + 1] \in {"\"", "\\", "/", "n", "t", "r"}
         THEN ReadString(s, i + 2, Append(acc, Unescape(s[i + 1])))
         ELSE NotRead
    ELSE IF s[i] \in {"\n", "\t", "\r"} THEN NotRead
    ELSE ReadString(s, i + 1, Append(acc, s[i]))

\* A JSON value from index i on: a string, null, an array or an object
\* (numbers and booleans do not occur in the records of this program).
RECURSIVE ReadValue(_, _), ReadElements(_, _, _), ReadMembers(_, _, _, _)
ReadValue(s, i0) ==
    LET i == SkipSpace(s, i0)
    IN IF i > Len(s) THEN NotRead
       ELSE IF s[i] = "\"" THEN ReadString(s, i + 1, <<>>)
       ELSE IF StartsWith(s, i, <<"n", "u", "l", "l">>) THEN Read(Null, i + 4)
       ELSE IF s[i] = "["
       THEN LET j == SkipSpace(s, i + 1)
            IN IF j <= Len(s) /\ s[j] = "]" THEN Read(List(<<>>), j + 1)
               ELSE ReadElements(s, j, <<>>)
       ELSE IF s[i] = "{"
       THEN LET j == SkipSpace(s, i + 1)
            IN IF j <= Len(s) /\ s[j] = "}" THEN Read(Dict(<<>>, <<>>), j + 1)
               ELSE ReadMembers(s, j, <<>>, <<>>)
       ELSE NotRead

\* The elements of an array from index i on, after those in acc.
ReadElements(s, i, acc) ==
    LET v == ReadValue(s, i)
        e == SkipSpace(s, v.i)
    IN IF ~v.ok \/ e > Len(s) THEN NotRead
       ELSE IF s[e] = "]" THEN Read(List(Append(acc, v.v)), e + 1)
       ELSE IF s[e] = "," THEN ReadElements(s, e + 1, Append(acc, v.v))
       ELSE NotRead

\* The members of an object from index i on, after those in keys and vals.
ReadMembers(s, i, keys, vals) ==
    IF i > Len(s) \/ s[i] # "\"" THEN NotRead
    ELSE LET key == ReadString(s, i + 1, <<>>)
             c == SkipSpace(s, key.i)
         IN IF ~key.ok \/ c > Len(s) \/ s[c] # ":" THEN NotRead
            ELSE LET v == ReadValue(s, c + 1)
                     e == SkipSpace(s, v.i)
                 IN IF ~v.ok \/ e > Len(s) THEN NotRead
                    ELSE IF s[e] = "}"
                    THEN Read(Dict(Append(keys, key.v.s), Append(vals, v.v)), e + 1)
                    ELSE IF s[e] = ","
                    THEN ReadMembers(s, SkipSpace(s, e + 1),
                                     Append(keys, key.v.s), Append(vals, v.v))
                    ELSE NotRead

\* The value read, when only whitespace follows it.
WholeText(s, v) ==
    IF v.ok /\ SkipSpace(s, v.i) > Len(s) THEN <<v.v>> ELSE <<>>

\* json.loads(s): <<value>>, or <<>> when it raises JSONDecodeError (the
\* text is not one JSON value with only whitespace around it).
JsonLoads(s) == WholeText(s, ReadValue(s, 1))

\* ------------------------------------------------------- parsed documents

\* The keys of a test case and of a step, as they are spelled in JSON.
Key ==
    [title |-> <<"t", "i", "t", "l", "e">>,
     description |-> <<"d", "e", "s", "c", "r", "i", "p", "t", "i", "o",
            "n">>,
     preconditions |-> <<"p", "r", "e", "c", "o", "n", "d", "i", "t", "i",
            "o", "n", "s">>,
     test_type |-> <<"t", "e", "s", "t", "_", "t", "y", "p", "e">>,
     design_technique |-> <<"d", "e", "s", "i", "g", "n", "_", "t", "e", "c",
            "h", "n", "i", "q", "u", "e">>,
     api_path |-> <<"a", "p", "i", "_", "p", "a", "t", "h">>,
     http_method |-> <<"h", "t", "t", "p", "_", "m", "e", "t", "h", "o",
            "d">>,
     priority |-> <<"p", "r", "i", "o", "r", "i", "t", "y">>,
     test_steps |-> <<"t", "e", "s", "t", "_", "s", "t", "e", "p", "s">>,
     action |-> <<"a", "c", "t", "i", "o", "n">>,
     expected_result |-> <<"e", "x", "p", "e", "c", "t", "e", "d", "_", "r",
            "e", "s", "u", "l", "t">>]

\* key in obj
Has(obj, key) == \E n \in 1..Len(obj.keys) : obj.keys[n] = key

\* obj[key]: the value of the last member with this key.
Value(obj, key) ==
    obj.vals[CHOOSE n \in 1..Len(obj.keys) :
                /\ obj.keys[n] = key
                /\ \A m \in (n + 1)..Len(obj.keys) : obj.keys[m] # key]

\* A field that holds a text: the string, null, Absent for a missing key
\* (a list or dict in its place reads as k = "other").
Scalar(obj, key) ==
    IF ~Has(obj, key) THEN Absent
    ELSE IF Value(obj, key).k \in {"str", "null"} THEN Value(obj, key)
    ELSE [k |-> "other", s |-> <<>>]

\* An element of test_steps.
AsStep(v) ==
    IF v.k = "obj" THEN RawStep(Scalar(v, Key.action), Scalar(v, Key.expected_result))
    ELSE NonDictStep

\* The test_steps field.
StepsOf(obj) ==
    IF ~Has(obj, Key.test_steps) THEN NoSteps
    ELSE LET v == Value(obj, Key.test_steps)
         IN IF v.k = "list" THEN Steps([n \in 1..Len(v.l) |-> AsStep(v.l[n])])
            ELSE IF v.k = "null" THEN NullSteps
            ELSE [k |-> "other", l |-> <<>>]

\* A parsed value as a candidate record: the fields the program reads.
AsCase(v) ==
    IF v.k = "obj"
    THEN [k |-> "dict",
          title |-> Scalar(v, Key.title),
          description |-> Scalar(v, Key.description),
          preconditions |-> Scalar(v, Key.preconditions),
          test_type |-> Scalar(v, Key.test_type),
          design_technique |-> Scalar(v, Key.design_technique),
          api_path |-> Scalar(v, Key.api_path),
          http_method |-> Scalar(v, Key.http_method),
          priority |-> Scalar(v, Key.priority),
          test_steps |-> StepsOf(v)]
    ELSE [k |-> "other",
          title |-> Absent, description |-> Absent, preconditions |-> Absent,
          test_type |-> Absent, design_technique |-> Absent,
          api_path |-> Absent, http_method |-> Absent, priority |-> Absent,
          test_steps |-> NoSteps]

Cases(l) == [n \in 1..Len(l) |-> AsCase(l[n])]

\* -------------------------------------------------- _parse_llm_response

\* The wrapper keys _normalize_response tries, in its order.
WrapperKeys ==
    <<<<"t", "e", "s", "t", "_", "c", "a", "s", "e", "s">>,
      <<"c", "a", "s", "e", "s">>,
      <<"t", "e", "s", "t", "C", "a", "s", "e", "s">>,
      <<"d", "a", "t", "a">>,
      <<"r", "e", "s", "u", "l", "t", "s">>>>

\* The wrapper keys under which a dict holds a list, by their position in
\* WrapperKeys.
Wrapping(raw_data) ==
    {n \in 1..Len(WrapperKeys) :
        /\ Has(raw_data, WrapperKeys[n])
        /\ Value(raw_data, WrapperKeys[n]).k = "list"}

\* The values _normalize_response hands to _validate_cases: the list under
\* the first wrapper key of a dict, a dict without one by itself, the
\* elements of a list.
Unwrapped(raw_data, found) ==
    IF raw_data.k = "obj"
    THEN IF found # {}
         THEN Value(raw_data, WrapperKeys[CHOOSE n \in found : \A m \in found : n <= m]).l
         ELSE <<raw_data>>
    ELSE IF raw_data.k = "list" THEN raw_data.l
    ELSE <<>>

\* A dict without a wrapper key is kept only when it looks like a test
\* case.
SingleOrNone(raw_data, found, cases) ==
    IF raw_data.k = "obj" /\ found = {} /\ ~IsTestCaseLike(cases[1]) THEN <<>>
    ELSE cases

\* _normalize_response
NormalizeResponse(raw_data) ==
    ValidateCases(SingleOrNone(raw_data, Wrapping(raw_data),
                               Cases(Unwrapped(raw_data, Wrapping(raw_data)))))

\* _try_direct_parse: <<raw_data>>, or <<>> for None.
TryDirectParse(json_string) == JsonLoads(json_string)

\* str.find(word, from) as a 1-based index, 0 when there is none.
Find(s, word, from) ==
    LET at == {i \in from..Len(s) : StartsWith(s, i, word)}
    IN IF at = {} THEN 0 ELSE CHOOSE i \in at : \A j \in at : i <= j

\* str.rfind(c) as a 1-based index, 0 when there is none.
RFind(s, c) ==
    LET at == {i \in 1..Len(s) : s[i] = c}
    IN IF at = {} THEN 0 ELSE CHOOSE i \in at : \A j \in at : i >= j

\* The fence of a code block, three backquotes; a TLA+ string cannot hold
\* a backquote, so the character ' stands for it.
Fence == <<"'", "'", "'">>

\* _try_extract_code_block without the optional "json" of the pattern.
TryExtractCodeBlockNoTag(json_string) ==
    LET open == Find(json_string, Fence, 1)
        from == SkipSpace(json_string, open + 3)
        close == Find(json_string, Fence, from)
    IN IF open = 0 \/ close = 0 THEN <<>>
       ELSE JsonLoads(SubSeq(json_string, from, close - 1))

\* _try_extract_code_block: the first fence with an optional "json" and
\* whitespace after it, up to the next fence.
TryExtractCodeBlock(json_string) ==
    LET open == Find(json_string, Fence, 1)
        tag == IF StartsWith(json_string, open + 3, <<"j", "s", "o", "n">>)
               THEN open + 7 ELSE open + 3
        from == SkipSpace(json_string, tag)
        close == Find(json_string, Fence, from)
    IN IF open = 0 \/ close = 0 THEN <<>>
       ELSE JsonLoads(SubSeq(json_string, from, close - 1))

\* _try_extract_array: from the first '[' to the last ']'.
TryExtractArray(json_string) ==
    LET start_idx == Find(json_string, <<"[">>, 1)
        end_idx == RFind(json_string, "]")
    IN IF start_idx # 0 /\ end_idx >= start_idx
       THEN JsonLoads(SubSeq(json_string, start_idx, end_idx))
       ELSE <<>>

\* str.count(c)
Count(s, c) == Cardinality({i \in 1..Len(s) : s[i] = c})

\* c * n
Repeat(c, n) == [i \in 1..n |-> c]

\* LastCompleteStep without escape_next: every quote opens or closes a
\* string.
LastCompleteStepNoEscape(st, char, i) ==
    IF char = "\"" THEN [st EXCEPT !.in_string = ~@]
    ELSE IF st.in_string THEN st
    ELSE IF char = "{" THEN [st EXCEPT !.depth = @ + 1]
    ELSE IF char = "}"
    THEN [st EXCEPT !.depth = @ - 1,
                    !.last_complete_pos = IF st.depth - 1 = 0 THEN i ELSE @]
    ELSE IF char = "[" THEN [st EXCEPT !.depth = @ + 1]
    ELSE IF char = "]" THEN [st EXCEPT !.depth = @ - 1]
    ELSE st

\* One character of the scan of _find_last_complete_object, from the scan
\* state st = [depth, last_complete_pos, in_string, escape_next]; i is
\* the 1-based index of the character, which is the code's i + 1.
LastCompleteStep(st, char, i) ==
    IF st.escape_next THEN [st EXCEPT !.escape_next = FALSE]
    ELSE IF char = "\\" THEN [st EXCEPT !.escape_next = TRUE]
    ELSE IF char = "\"" THEN [st EXCEPT !.in_string = ~@]
    ELSE IF st.in_string THEN st
    ELSE IF char = "{" THEN [st EXCEPT !.depth = @ + 1]
    ELSE IF char = "}"
    THEN [st EXCEPT !.depth = @ - 1,
                    !.last_complete_pos = IF st.depth - 1 = 0 THEN i ELSE @]
    ELSE IF char = "[" THEN [st EXCEPT !.depth = @ + 1]
    ELSE IF char = "]" THEN [st EXCEPT !.depth = @ - 1]
    ELSE st

\* The for loop over the characters lo..hi, from the scan state st: the
\* first half of the range, then the second from the state it leaves.
RECURSIVE LastCompleteScan(_, _, _, _)
LastCompleteScan(json_str, lo, hi, st) ==
    IF lo > hi THEN st
    ELSE IF lo = hi THEN LastCompleteStep(st, json_str[lo], lo)
    ELSE LET mid == (lo + hi) \div 2
             half == LastCompleteScan(json_str, lo, mid, st)
         IN IF half.depth = half.depth
            THEN LastCompleteScan(json_str, mid + 1, hi, half) ELSE st

\* Lines 591-599 of _find_last_complete_object: the text up to the last
\* complete object, with the array closed when it is open.
UpToLastComplete(result, last_complete_pos) ==
    IF last_complete_pos > 0
    THEN IF Count(result, "[") > Count(result, "]")
         THEN <<result \o <<"]">>>> ELSE <<result>>
    ELSE <<>>

\* json_str[:last_complete_pos]
CutAt(json_str, last_complete_pos) ==
    UpToLastComplete(SubSeq(json_str, 1, last_complete_pos), last_complete_pos)

\* _find_last_complete_object: <<result>>, or <<>> for None.
FindLastCompleteObject(json_str) ==
    CutAt(json_str,
          LastCompleteScan(json_str, 1, Len(json_str),
              [depth |-> 0, last_complete_pos |-> 0,
               in_string |-> FALSE, escape_next |-> FALSE]).last_complete_pos)

\* max(0, n)
Max0(n) == IF n > 0 THEN n ELSE 0

\* Lines 543-546: a trailing comma is removed after rstrip.
DropTrailingComma(stripped) ==
    IF stripped # <<>> /\ stripped[Len(stripped)] = ","
    THEN SubSeq(stripped, 1, Len(stripped) - 1) ELSE stripped

\* Lines 539-555 of _try_repair_json: the open structures of the fragment
\* are counted and closed, braces first, and the result is parsed.
CloseAndLoad(fragment) ==
    JsonLoads(DropTrailingComma(RStrip(fragment))
                 \o Repeat("}", Max0(Count(fragment, "{") - Count(fragment, "}")))
                 \o Repeat("]", Max0(Count(fragment, "[") - Count(fragment, "]"))))

\* Lines 534-537: the fragment is cut to its last complete object when
\* there is one.
TrimToLastComplete(whole, last_complete) ==
    CloseAndLoad(IF last_complete # <<>> THEN last_complete[1] ELSE whole)

\* Lines 530-532: the fragment starts at start_idx, if there is one.
RepairFrom(json_string, start_idx) ==
    IF start_idx = 0 THEN <<>>
    ELSE TrimToLastComplete(
             SubSeq(json_string, start_idx, Len(json_string)),
             FindLastCompleteObject(SubSeq(json_string, start_idx, Len(json_string))))

\* Lines 524-527: the first '[', or else the first '{'.
StartIdx(json_string, bracket) ==
    IF bracket # 0 THEN bracket ELSE Find(json_string, <<"{">>, 1)

\* _try_repair_json
TryRepairJson(json_string) ==
    RepairFrom(json_string, StartIdx(json_string, Find(json_string, <<"[">>, 1)))

\* if self._is_test_case_like(obj): results.append(obj)
KeptCase(case) == IF IsTestCaseLike(case) THEN <<case>> ELSE <<>>

\* Lines 634-641: what the object text adds to results, nothing when
\* json.loads raised.
KeptObject(obj) == IF obj = <<>> THEN <<>> ELSE KeptCase(AsCase(obj[1]))

\* One character of the scan of _extract_complete_objects, from the scan
\* state st = [depth, start, in_string, escape_next, results]; start is
\* 1-based, 0 for the code's -1.
ExtractStep(json_string, st, i) ==
    LET char == json_string[i]
    IN IF st.escape_next THEN [st EXCEPT !.escape_next = FALSE]
       ELSE IF char = "\\" THEN [st EXCEPT !.escape_next = TRUE]
       ELSE IF char = "\"" THEN [st EXCEPT !.in_string = ~@]
       ELSE IF st.in_string THEN st
       ELSE IF char = "{"
       THEN [st EXCEPT !.start = IF st.depth = 0 THEN i ELSE @, !.depth = @ + 1]
       ELSE IF char = "}"
       THEN IF st.depth - 1 = 0 /\ st.start # 0
            THEN [st EXCEPT !.depth = @ - 1, !.start = 0,
                            !.results =
                                @ \o KeptObject(JsonLoads(SubSeq(json_string, st.start, i)))]
            ELSE [st EXCEPT !.depth = @ - 1]
       ELSE st

\* The for loop over the characters lo..hi, from the scan state st: the
\* first half of the range, then the second from the state it leaves.
RECURSIVE ExtractScan(_, _, _, _)
ExtractScan(json_string, lo, hi, st) ==
    IF lo > hi THEN st
    ELSE IF lo = hi THEN ExtractStep(json_string, st, lo)
    ELSE LET mid == (lo + hi) \div 2
             half == ExtractScan(json_string, lo, mid, st)
         IN IF half.depth = half.depth
            THEN ExtractScan(json_string, mid + 1, hi, half) ELSE st

\* _extract_complete_objects stopping after the first object it finds.
ExtractFirstCompleteObject(json_string) ==
    LET results == ExtractScan(json_string, 1, Len(json_string),
            [depth |-> 0, start |-> 0, in_string |-> FALSE,
             escape_next |-> FALSE, results |-> <<>>]).results
    IN IF results = <<>> THEN <<>> ELSE <<results[1]>>

\* _extract_complete_objects
ExtractCompleteObjects(json_string) ==
    ExtractScan(json_string, 1, Len(json_string),
        [depth |-> 0, start |-> 0, in_string |-> FALSE, escape_next |-> FALSE,
         results |-> <<>>]).results

\* raw_data of the n-th strategy: <<value>>, or <<>> for None.
RawData(json_string, n) ==
    CASE n = 1 -> TryDirectParse(json_string)
      [] n = 2 -> TryExtractCodeBlock(json_string)
      [] n = 3 -> TryExtractArray(json_string)
      [] n = 4 -> TryRepairJson(json_string)
      [] OTHER -> <<>>

\* self._normalize_response(raw_data) where raw_data is not None.
Normalized(raw_data) ==
    IF raw_data = <<>> THEN <<>> ELSE NormalizeResponse(raw_data[1])

\* Strategies 1 to 3 return the normalized list whenever raw_data is not
\* None, strategy 4 only when the list is not empty, strategy 5 returns
\* the objects it found.
Returning(n, raw_data, cases, json_string) ==
    IF n \in {1, 2, 3} THEN [returns |-> raw_data # <<>>, cases |-> cases]
    ELSE IF n = 4 THEN [returns |-> cases # <<>>, cases |-> cases]
    ELSE [returns |-> TRUE, cases |-> ExtractCompleteObjects(json_string)]

StrategyOutcome(n, raw_data, json_string) ==
    Returning(n, raw_data, Normalized(raw_data), json_string)

\* The n-th strategy of _parse_llm_response: whether the function returns
\* there, and what it returns.
Strategy(json_string, n) ==
    StrategyOutcome(n, RawData(json_string, n), json_string)

\* The outcome of the first strategy from the n-th on that returns (the
\* fifth always does).
FirstReturning(outcomes, n) ==
    outcomes[CHOOSE m \in n..5 :
                 /\ outcomes[m].returns
                 /\ \A l \in n..(m - 1) : ~outcomes[l].returns].cases

\* _parse_llm_response from its n-th strategy on.
ParseFrom(json_string, n) ==
    FirstReturning([m \in 1..5 |-> Strategy(json_string, m)], n)

\* _parse_llm_response
ParseLLMResponse(json_string) ==
    IF json_string = <<>> THEN <<>> ELSE ParseFrom(json_string, 1)

\* ------------------------------------------------- parser.py: $ref pointers

\* A specification document is held as json.load and yaml.safe_load return
\* it: dicts (Dict), lists (List) and strings (Str).
EmptyDict == Dict(<<>>, <<>>)

\* The keys and words the parser looks for.
RefKey == <<"$", "r", "e", "f">>

ResolvedKey == <<"_", "r", "e", "s", "o", "l", "v", "e", "d">>

CircularReference == <<"c", "i", "r", "c", "u", "l", "a", "r", "_", "r", "e", "f", "e", "r", "e", "n", "c", "e">>

DefinitionsKey == <<"d", "e", "f", "i", "n", "i", "t", "i", "o", "n", "s">>

ComponentsKey == <<"c", "o", "m", "p", "o", "n", "e", "n", "t", "s">>

SchemasKey == <<"s", "c", "h", "e", "m", "a", "s">>

OpenapiKey == <<"o", "p", "e", "n", "a", "p", "i">>

SwaggerKey == <<"s", "w", "a", "g", "g", "e", "r">>

\* str.split(sep) of s[from:]: the parts between the separators, empty ones
\* included.
RECURSIVE SplitFrom(_, _, _, _)
SplitFrom(s, sep, from, part) ==
    IF from > Len(s) THEN <<part>>
    ELSE IF s[from] = sep THEN <<part>> \o SplitFrom(s, sep, from + 1, <<>>)
    ELSE SplitFrom(s, sep, from + 1, Append(part, s[from]))

Split(s, sep) == SplitFrom(s, sep, 1, <<>>)

\* What a call gives: a value, or an exception.
Gives(v) == [raises |-> FALSE, v |-> v]

Raises == [raises |-> TRUE, v |-> EmptyDict]

\* obj.get(key, {}), an AttributeError when obj is not a dict.
DictGet(obj, key) ==
    IF obj.k # "obj" THEN Raises
    ELSE IF Has(obj, key) THEN Gives(Value(obj, key))
    ELSE Gives(EmptyDict)

\* obj.get(keys[1], {}).get(keys[2], {})...
RECURSIVE GetChain(_, _)
GetChain(got, keys) ==
    IF got.raises \/ keys = <<>> THEN got
    ELSE GetChain(DictGet(got.v, Head(keys)), Tail(keys))

\* detect_version
DetectVersion(doc) ==
    IF Has(doc, OpenapiKey) THEN "openapi3"
    ELSE IF Has(doc, SwaggerKey) THEN "swagger2"
    ELSE "swagger2"

\* Lines 146-154 of resolve_ref: the path is walked from the root while
\* dicts are met; what is not a dict reads as {}.
RECURSIVE Traverse(_, _)
Traverse(found, path_parts) ==
    IF path_parts = <<>> THEN IF found.k = "obj" THEN found ELSE EmptyDict
    ELSE IF found.k = "obj"
    THEN Traverse(IF Has(found, Head(path_parts))
                  THEN Value(found, Head(path_parts)) ELSE EmptyDict,
                  Tail(path_parts))
    ELSE EmptyDict

\* Lines 136-144 of resolve_ref without the test of spec_version: every
\* pointer is walked from the root.
DispatchGeneric(doc, version, path_parts) == Gives(Traverse(doc, path_parts))

\* Lines 136-154 of resolve_ref: the schema sections of the two dialects are
\* read by name (path_parts[1] and path_parts[2] are indexed without a
\* test of the length: IndexError), every other pointer is walked.
Dispatch(doc, version, path_parts) ==
    IF version = "openapi3"
    THEN IF path_parts[1] = ComponentsKey
         THEN IF Len(path_parts) < 2 THEN Raises
              ELSE IF path_parts[2] = SchemasKey
              THEN IF Len(path_parts) < 3 THEN Raises
                   ELSE GetChain(Gives(doc), <<ComponentsKey, SchemasKey, path_parts[3]>>)
              ELSE Gives(Traverse(doc, path_parts))
         ELSE Gives(Traverse(doc, path_parts))
    ELSE IF path_parts[1] = DefinitionsKey
         THEN IF Len(path_parts) < 2 THEN Raises
              ELSE GetChain(Gives(doc), <<DefinitionsKey, path_parts[2]>>)
         ELSE Gives(Traverse(doc, path_parts))

\* resolve_ref
ResolveRef(doc, version, ref_path) ==
    IF ~StartsWith(ref_path, 1, <<"#", "/">>) THEN Gives(EmptyDict)
    ELSE Dispatch(doc, version, Split(SubSeq(ref_path, 3, Len(ref_path)), "/"))

\* {"$ref": ref_path, "_resolved": "circular_reference"}
Sentinel(ref_path) ==
    Dict(<<RefKey, ResolvedKey>>, <<Str(ref_path), Str(CircularReference)>>)

\* if resolved: of a value of the document
NotEmpty(v) ==
    CASE v.k = "obj" -> v.keys # <<>>
      [] v.k = "list" -> v.l # <<>>
      [] v.k = "str" -> v.s # <<>>
      [] OTHER -> FALSE

\* Revisited without the set: no pointer counts as met before.
RevisitedNever(ref_path, visited) == FALSE

\* ref_path in visited_refs
Revisited(ref_path, visited) == ref_path \in visited

\* ------------------------------------------------- inputs: service output

\* sep.join(parts)
RECURSIVE Concat(_, _)
Concat(parts, sep) ==
    IF parts = <<>> THEN <<>>
    ELSE IF Len(parts) = 1 THEN parts[1]
    ELSE parts[1] \o sep \o Concat(Tail(parts), sep)

\* The characters of a JSON string, quotes and backslashes escaped.
RECURSIVE Escape(_)
Escape(s) ==
    IF s = <<>> THEN <<>>
    ELSE IF Head(s) \in {"\"", "\\"} THEN <<"\\", Head(s)>> \o Escape(Tail(s))
    ELSE <<Head(s)>> \o Escape(Tail(s))

Quote(s) == <<"\"">> \o Escape(s) \o <<"\"">>

\* "key":value for a text field, nothing for a missing key.
Member(key, v) ==
    IF v.k = "absent" THEN <<>>
    ELSE Quote(key) \o <<":">>
            \o (IF v.k = "null" THEN <<"n", "u", "l", "l">> ELSE Quote(v.s))

\* {...} with the members that are there.
Braced(members) ==
    <<"{">> \o Concat(SelectSeq(members, LAMBDA m : m # <<>>), <<",">>) \o <<"}">>

\* A step as the service writes it.
DumpStep(step) ==
    IF step.k # "dict" THEN <<"n", "u", "l", "l">>
    ELSE Braced(<<Member(Key.action, step.action),
                  Member(Key.expected_result, step.expected_result)>>)

\* The test_steps member.
DumpSteps(steps) ==
    IF steps.k = "absent" THEN <<>>
    ELSE Quote(Key.test_steps) \o <<":">>
            \o (IF steps.k = "null" THEN <<"n", "u", "l", "l">>
                ELSE <<"[">>
                        \o Concat([n \in 1..Len(steps.l) |-> DumpStep(steps.l[n])], <<",">>)
                        \o <<"]">>)

\* A record as the service writes it: json.dumps without blanks.
Dumps(case) ==
    Braced(<<Member(Key.title, case.title),
             Member(Key.description, case.description),
             Member(Key.preconditions, case.preconditions),
             Member(Key.test_type, case.test_type),
             Member(Key.design_technique, case.design_technique),
             Member(Key.api_path, case.api_path),
             Member(Key.http_method, case.http_method),
             Member(Key.priority, case.priority),
             DumpSteps(case.test_steps)>>)

\* The same record with test_steps written right after the title.
DumpsStepsFirst(case) ==
    Braced(<<Member(Key.title, case.title),
             DumpSteps(case.test_steps),
             Member(Key.description, case.description),
             Member(Key.preconditions, case.preconditions),
             Member(Key.test_type, case.test_type),
             Member(Key.design_technique, case.design_technique),
             Member(Key.api_path, case.api_path),
             Member(Key.http_method, case.http_method),
             Member(Key.priority, case.priority)>>)

\* [record, record, ...]
DumpList(batch) ==
    <<"[">> \o Concat([n \in 1..Len(batch) |-> Dumps(batch[n])], <<",">>) \o <<"]">>

Base ==
    [k |-> "dict",
     title |-> Str(<<"A">>),
     description |-> Absent,
     preconditions |-> Absent,
     test_type |-> Str(Positive),
     design_technique |-> Str(EP),
     api_path |-> Str(<<"/", "x">>),
     http_method |-> Str(<<"G", "E", "T">>),
     priority |-> Absent,
     test_steps |-> Steps(<<RawStep(Str(<<"a">>), Str(<<"b">>))>>)]

\* A complete record.
Good == Base

\* The same test as Good, written differently: other description,
\* lower-case method, trailing blank in the title.
GoodAgain ==
    [Base EXCEPT !.description = Str(<<"d">>),
                 !.http_method = Str(<<"g", "e", "t">>),
                 !.title = Str(<<"A", " ">>)]

\* No test_type key.
NoType == [Base EXCEPT !.test_type = Absent]

\* "http_method": null
NullMethod == [Base EXCEPT !.http_method = Null]

\* Neither api_path nor http_method, and a technique outside the enum.
NoPath ==
    [Base EXCEPT !.api_path = Absent, !.http_method = Absent,
                 !.design_technique = Str(<<"X">>)]

\* "test_steps": []
EmptySteps == [Base EXCEPT !.test_steps = Steps(<<>>)]

\* The record lists a response can carry.
Batches ==
    {<<Good, GoodAgain>>, <<NoType>>, <<Good, NullMethod>>, <<NoPath>>}

EmptyText == <<>>

\* No strategy finds anything.
Garbage == <<"o", "o", "p", "s">>

\* {"test_cases":[...]}
Wrapped(batch) ==
    <<"{">> \o Quote(WrapperKeys[1]) \o <<":">> \o DumpList(batch) \o <<"}">>

\* An array cut off inside the title key of the record after those of
\* batch (the length limit was reached): [...,{"ti
Truncated(batch) ==
    <<"[">> \o Concat([n \in 1..Len(batch) |-> Dumps(batch[n])], <<",">>)
            \o <<",", "{", "\"", "t", "i">>

\* The texts a request can return.
Texts ==
    {EmptyText, Garbage} \cup {Wrapped(b) : b \in Batches}
        \cup {Truncated(<<NoPath>>), Truncated(<<EmptySteps>>)}

\* _parse_llm_response of each text (the function is pure: computed once).
ParsedOf == [json_string \in Texts |-> ParseLLMResponse(json_string)]

\* What message.parsed.test_cases can hold: records of the schema.
ParsedBatches ==
    {<<>>} \cup {b \in Batches : \A i \in 1..Len(b) : TestCaseSchemaValid(b[i])}

\* [tc.model_dump() for tc in parsed.test_cases]
DumpAll(batch) == [i \in 1..Len(batch) |-> ModelDump(batch[i])]

\* ------------------------------------------------------------------ state

VARIABLES
    config,                 \* the run configuration (Config), fixed for the run
    use_structured_output,  \* self.use_structured_output
    test_cases,             \* self.test_cases
    seen_keys,              \* self.seen_keys
    sem_value,              \* free slots of the semaphore
    sem_waiters,            \* operations queued on the semaphore, first come first
    started,                \* number of tasks that have begun to run
    pc,                     \* where each operation's coroutine stands
    attempt,                \* attempt + 1 of the for loop, 0 before the loop
    sleep_for,              \* seconds given to asyncio.sleep, 0 when not asleep
    request,                \* the call the operation awaits
    last_result,            \* how the operation's latest request ended
    faults,                 \* failed attempts and payload builds so far
    run,                    \* generate_all_test_cases: "gathering" or "returned"
    response_text,          \* _parse_llm_response called alone: its json_string
    strategy_no,            \* the strategy it has reached, 0 at the entry test
    returned,               \* whether it has returned
    recovered,              \* the list it returned
    first_case,             \* get_unique_key called alone: a TestCase
    second_case,            \* another TestCase
    first_key,              \* the key of the first, <<>> before the call
    second_key,             \* the key of the second, <<>> before the call
    lock,                   \* self.lock: whether it is held, and who waits
    processing,             \* _process_generated_cases called alone: its cases
    case_no,                \* the position of its for loop in cases_data
    key_is_new,             \* unique_key not in self.seen_keys, as evaluated
    spec,                   \* SwaggerParser.spec, the loaded document
    spec_version,           \* SwaggerParser.spec_version
    resolving,              \* resolve_refs_recursive called alone: the call or return under way
    frames,                 \* its calls that wait for an inner call, innermost first
    visited_refs,           \* visited_refs, the set all its calls share
    resolved,               \* the pointer resolve_ref was last given, and what it gave
    filters,                \* the filters of the configuration (filters.*)
    operations,             \* generate_all_test_cases called alone: its list operations
    gather,                 \* where it stands: "start", "tasks", "returned", "raised"
    relevant_schemas,       \* relevant_schemas of each operation's payload
    requests,               \* requests issued to the service so far
    raw_cases,              \* _validate_cases called alone: its list cases
    validated_cases,        \* the list it returned
    validation,             \* how far its cases have come: "given", "validated", "processed"
    scanner,                \* the bracket-depth scan called alone: "last_complete" or "objects"
    scan_text,              \* the text it scans
    scan_at,                \* the index of the character its for loop comes to next
    scan_state              \* its local variables

\* The state of a run.
run_vars ==
    <<config, use_structured_output, test_cases, seen_keys, sem_value,
      sem_waiters, started, pc, attempt, sleep_for, request,
      last_result, faults, run>>

\* The state of _parse_llm_response called alone, outside a run.
parse_call == <<response_text, strategy_no, returned, recovered>>

\* The state of get_unique_key called alone on two records.
key_call == <<first_case, second_case, first_key, second_key>>

\* The state of _process_generated_cases called by each operation.
lock_call == <<lock, processing, case_no, key_is_new>>

\* The state of resolve_refs_recursive called alone.
resolve_call == <<spec, spec_version, resolving, frames, visited_refs, resolved>>

\* The state of generate_all_test_cases called alone, up to the first
\* request of each task.
gather_call == <<filters, operations, gather, relevant_schemas, requests>>

\* The state of _validate_cases called alone, and of the
\* _process_generated_cases that takes what it returned.
validate_call == <<raw_cases, validated_cases, validation>>

\* The state of the functions called alone.
\* The state of _find_last_complete_object or _extract_complete_objects
\* called alone, character by character.
scan_call == <<scanner, scan_text, scan_at, scan_state>>

calls == <<parse_call, key_call, lock_call, resolve_call, gather_call, validate_call,
           scan_call>>

\* What each of these calls leaves alone.
outside_parse == <<run_vars, key_call, lock_call, resolve_call, gather_call, validate_call, scan_call>>

outside_key == <<run_vars, parse_call, lock_call, resolve_call, gather_call, validate_call, scan_call>>

outside_lock == <<parse_call, key_call, resolve_call, gather_call, validate_call, scan_call>>

outside_resolve == <<run_vars, parse_call, key_call, lock_call, gather_call, validate_call, scan_call>>

\* The parser's state is not in it: generate_all_test_cases reads it.
outside_gather == <<run_vars, parse_call, key_call, lock_call, resolving, frames,
                    visited_refs, resolved, validate_call, scan_call>>

outside_validate == <<parse_call, key_call, lock_call, resolve_call, gather_call,
                      scan_call>>

outside_scan == <<run_vars, parse_call, key_call, lock_call, resolve_call, gather_call,
                  validate_call>>

vars == <<run_vars, calls>>

\* The lock is free and no operation is at _process_generated_cases.
NoLockCall ==
    /\ lock = [locked |-> FALSE, waiters |-> <<>>]
    /\ processing = [op \in 1..NumOps |-> <<>>]
    /\ case_no = [op \in 1..NumOps |-> 0]
    /\ key_is_new = [op \in 1..NumOps |-> "unset"]

\* _parse_llm_response is not being called alone.
NoParseCall ==
    /\ response_text = <<>>
    /\ strategy_no = 0
    /\ returned = FALSE
    /\ recovered = <<>>

\* get_unique_key is not being called alone.
NoKeyCall ==
    /\ first_case = <<>>
    /\ second_case = <<>>
    /\ first_key = <<>>
    /\ second_key = <<>>

\* resolve_ref has not been called.
NoPointerCall == [ref_path |-> <<>>, result |-> Gives(EmptyDict)]

\* The parser is not in use.
NoResolveCall ==
    /\ spec = EmptyDict
    /\ spec_version = "none"
    /\ resolving = [kind |-> "idle", obj |-> EmptyDict]
    /\ frames = <<>>
    /\ visited_refs = {}
    /\ resolved = NoPointerCall

\* generate_all_test_cases is not being called alone.
NoGatherCall ==
    /\ filters = [include_paths |-> <<>>, exclude_paths |-> <<>>,
                  include_methods |-> <<>>, include_tags |-> <<>>]
    /\ operations = <<>>
    /\ gather = "idle"
    /\ relevant_schemas = <<>>
    /\ requests = 0

\* _validate_cases is not being called alone.
NoValidateCall ==
    /\ raw_cases = <<>>
    /\ validated_cases = <<>>
    /\ validation = "idle"

\* No bracket-depth scan is being made alone.
NoScanCall ==
    /\ scanner = "idle"
    /\ scan_text = <<>>
    /\ scan_at = 0
    /\ scan_state = [depth |-> 0]

\* No function is being called alone.
NoCall ==
    /\ NoParseCall
    /\ NoKeyCall
    /\ NoLockCall
    /\ NoResolveCall
    /\ NoGatherCall
    /\ NoValidateCall
    /\ NoScanCall

Ops == 1..NumOps

\* self.http_methods
HttpMethods ==
    <<<<"G", "E", "T">>, <<"P", "O", "S", "T">>, <<"P", "U", "T">>,
      <<"P", "A", "T", "C", "H">>, <<"D", "E", "L", "E", "T", "E">>>>

\* operations[op - 1]: the operations of path /x, then those of path /y.
OpPath(op) == IF op <= Len(HttpMethods) THEN <<"/", "x">> ELSE <<"/", "y">>

OpMethod(op) == HttpMethods[((op - 1) % Len(HttpMethods)) + 1]

Terminal == {"Succeeded", "ExhaustedFailed", "Raised"}

\* Every list of cases an attempt can obtain.
CaseLists ==
    {ParsedOf[json_string] : json_string \in Texts}
        \cup {DumpAll(batch) : batch \in ParsedBatches}

\* BuildCase of each case of each list, for each operation (the function
\* is pure: computed once).
Built ==
    [cases_data \in CaseLists |->
        [op \in Ops |->
            [i \in 1..Len(cases_data) |->
                BuildCase(cases_data[i], OpPath(op), OpMethod(op))]]]

\* max_concurrent is neither None nor 0: the tasks share a semaphore.
Limited == config.max_concurrent # 0

\* LLMTestCaseGenerator.__init__ with a Config; the operations are listed and
\* gather is about to run their tasks.
Init ==
    /\ config \in [max_retries : {1, MaxRetries},
                   max_concurrent : 0..MaxConcurrent,
                   enable_deduplication : BOOLEAN,
                   use_streaming : BOOLEAN,
                   retry_delay : {DefaultRetryDelay}]
    /\ use_structured_output \in BOOLEAN
    /\ test_cases = <<>>
    /\ seen_keys = {}
    /\ sem_value = config.max_concurrent
    /\ sem_waiters = <<>>
    /\ started = 0
    /\ pc = [op \in Ops |-> "NotStarted"]
    /\ attempt = [op \in Ops |-> 0]
    /\ sleep_for = [op \in Ops |-> 0]
    /\ request = [op \in Ops |-> "none"]
    /\ last_result = [op \in Ops |-> "none"]
    /\ faults = 0
    /\ run = "gathering"
    /\ NoCall

\* _generate_with_json_mode: the call it makes.
JsonMode == IF config.use_streaming THEN "stream" ELSE "plain"

\* Release with the slot given back only by an operation that succeeded.
ReleaseOnSuccess(op, state) ==
    /\ pc' = IF Limited /\ sem_waiters # <<>> /\ state = "Succeeded"
             THEN [pc EXCEPT ![op] = state, ![Head(sem_waiters)] = "Woken"]
             ELSE [pc EXCEPT ![op] = state]
    /\ sem_waiters' = IF Limited /\ sem_waiters # <<>> /\ state = "Succeeded"
                      THEN Tail(sem_waiters)
                      ELSE sem_waiters
    /\ sem_value' = IF Limited /\ sem_waiters = <<>> /\ state = "Succeeded"
                    THEN sem_value + 1 ELSE sem_value
    /\ request' = [request EXCEPT ![op] = "none"]

\* The operation's coroutine stops at state holding no request; with a
\* semaphore its slot is released, waking the first waiter.
Release(op, state) ==
    /\ pc' = IF Limited /\ sem_waiters # <<>>
             THEN [pc EXCEPT ![op] = state, ![Head(sem_waiters)] = "Woken"]
             ELSE [pc EXCEPT ![op] = state]
    /\ sem_waiters' = IF Limited /\ sem_waiters # <<>> THEN Tail(sem_waiters)
                      ELSE sem_waiters
    /\ sem_value' = IF Limited /\ sem_waiters = <<>> THEN sem_value + 1 ELSE sem_value
    /\ request' = [request EXCEPT ![op] = "none"]

\* The operation's coroutine returns or raises: its frame, and with it the
\* loop variable attempt, is gone, and the async with block releases.
Ends(op, state) ==
    /\ Release(op, state)
    /\ attempt' = [attempt EXCEPT ![op] = 0]
    /\ UNCHANGED sleep_for

\* Top of the for loop: attempt n issues its first request.
BeginAttempt(op, n) ==
    /\ pc' = [pc EXCEPT ![op] = "Requesting"]
    /\ attempt' = [attempt EXCEPT ![op] = n]
    /\ sleep_for' = [sleep_for EXCEPT ![op] = 0]
    /\ request' = [request EXCEPT ![op] =
                     IF use_structured_output THEN "strict" ELSE JsonMode]
    /\ last_result' = [last_result EXCEPT ![op] = "none"]

\* FailAttempt with the loop bound off by one: one attempt too many.
FailAttemptOneMore(op) ==
    /\ faults < MaxFaults
    /\ faults' = faults + 1
    /\ IF attempt[op] <= config.max_retries
       THEN /\ pc' = [pc EXCEPT ![op] = "Sleeping"]
            /\ request' = [request EXCEPT ![op] = "none"]
            /\ sleep_for' = [sleep_for EXCEPT ![op] =
                                config.retry_delay * attempt[op]]
            /\ UNCHANGED <<attempt, sem_value, sem_waiters>>
       ELSE Ends(op, "ExhaustedFailed")

\* FailAttempt with the semaphore held per attempt instead of per
\* operation: the slot is released before the sleep.
FailAttemptReleasing(op) ==
    /\ faults < MaxFaults
    /\ faults' = faults + 1
    /\ IF attempt[op] < config.max_retries
       THEN /\ Release(op, "Sleeping")
            /\ sleep_for' = [sleep_for EXCEPT ![op] =
                                config.retry_delay * attempt[op]]
            /\ UNCHANGED attempt
       ELSE Ends(op, "ExhaustedFailed")

\* FailAttempt with a flat delay: retry_delay, whatever the attempt.
FailAttemptFlatDelay(op) ==
    /\ faults < MaxFaults
    /\ faults' = faults + 1
    /\ IF attempt[op] < config.max_retries
       THEN /\ pc' = [pc EXCEPT ![op] = "Sleeping"]
            /\ request' = [request EXCEPT ![op] = "none"]
            /\ sleep_for' = [sleep_for EXCEPT ![op] = config.retry_delay]
            /\ UNCHANGED <<attempt, sem_value, sem_waiters>>
       ELSE Ends(op, "ExhaustedFailed")

\* The attempt failed: sleep when attempts remain, else leave the loop.
FailAttempt(op) ==
    /\ faults < MaxFaults
    /\ faults' = faults + 1
    /\ IF attempt[op] < config.max_retries
       THEN /\ pc' = [pc EXCEPT ![op] = "Sleeping"]
            /\ request' = [request EXCEPT ![op] = "none"]
            /\ sleep_for' = [sleep_for EXCEPT ![op] =
                                config.retry_delay * attempt[op]]
            /\ UNCHANGED <<attempt, sem_value, sem_waiters>>
       ELSE Ends(op, "ExhaustedFailed")

\* How an attempt that obtained cases_data ended: nothing recovered
\* ("empty"), a record raised while it was processed ("error"), else "cases".
Outcome(cases_data, raised) ==
    IF cases_data = <<>> THEN "empty" ELSE IF raised THEN "error" ELSE "cases"

\* ProcessGeneratedCases without the return of line 295: the loop goes on
\* to its next attempt after the cases were processed.
ProcessGeneratedCasesNoReturn(op, cases_data) ==
    LET acc == ProcessCases([test_cases |-> test_cases, seen_keys |-> seen_keys,
                             valid_count |-> 0, raised |-> FALSE],
                            Built[cases_data][op], config.enable_deduplication)
    IN /\ test_cases' = acc.test_cases
       /\ seen_keys' = acc.seen_keys
       /\ IF acc.raised
          THEN /\ FailAttempt(op)
               /\ last_result' = [last_result EXCEPT ![op] = "error"]
          ELSE IF attempt[op] < config.max_retries
          THEN /\ BeginAttempt(op, attempt[op] + 1)
               /\ UNCHANGED <<sem_value, sem_waiters, faults>>
          ELSE /\ Ends(op, "Succeeded")
               /\ last_result' = [last_result EXCEPT ![op] = "cases"]
               /\ UNCHANGED faults

\* _process_generated_cases: the lock is free whenever a coroutine reaches
\* it (no holder suspends), so the body runs at once, then the operation
\* returns, or the except branch runs when a record raised.
ProcessGeneratedCases(op, cases_data) ==
    LET acc == ProcessCases([test_cases |-> test_cases, seen_keys |-> seen_keys,
                             valid_count |-> 0, raised |-> FALSE],
                            Built[cases_data][op], config.enable_deduplication)
    IN /\ test_cases' = acc.test_cases
       /\ seen_keys' = acc.seen_keys
       /\ last_result' = [last_result EXCEPT ![op] = Outcome(cases_data, acc.raised)]
       /\ IF acc.raised THEN FailAttempt(op)
          ELSE Ends(op, "Succeeded") /\ UNCHANGED faults

\* Deliver without the test of line 292: whatever came back is processed
\* and the operation returns.
DeliverUnchecked(op, generated_cases_data) ==
    ProcessGeneratedCases(op, generated_cases_data)

\* if generated_cases_data: ... else: ...
Deliver(op, generated_cases_data) ==
    IF generated_cases_data # <<>>
    THEN ProcessGeneratedCases(op, generated_cases_data)
    ELSE /\ FailAttempt(op)
         /\ last_result' = [last_result EXCEPT ![op] = Outcome(<<>>, FALSE)]
         /\ UNCHANGED <<test_cases, seen_keys>>

\* StartTask without the semaphore: every task enters the operation at once.
StartTaskNoGate(op) ==
    /\ run = "gathering"
    /\ op = started + 1
    /\ pc[op] = "NotStarted"
    /\ started' = op
    /\ BeginAttempt(op, 1)
    /\ UNCHANGED <<config, use_structured_output, test_cases, seen_keys, run,
                   sem_value, sem_waiters, faults, calls>>

\* A task begins to run, in the order gather was given the coroutines; with
\* a semaphore it takes a slot or queues.  Lines 257-276 build the payload,
\* which raises on an operation body get_relevant_schemas or json.dumps
\* cannot handle; otherwise attempt 1 begins.
StartTask(op) ==
    /\ run = "gathering"
    /\ op = started + 1
    /\ pc[op] = "NotStarted"
    /\ started' = op
    /\ IF Limited /\ ~(sem_value > 0 /\ sem_waiters = <<>>)
       THEN /\ pc' = [pc EXCEPT ![op] = "Queued"]
            /\ sem_waiters' = Append(sem_waiters, op)
            /\ UNCHANGED <<attempt, sleep_for, request, last_result, sem_value,
                           faults>>
       ELSE \/ /\ BeginAttempt(op, 1)
               /\ sem_value' = IF Limited THEN sem_value - 1 ELSE sem_value
               /\ UNCHANGED <<sem_waiters, faults>>
            \/ /\ faults < MaxFaults
               /\ faults' = faults + 1
               /\ pc' = [pc EXCEPT ![op] = "Raised"]
               /\ last_result' = [last_result EXCEPT ![op] = "raised"]
               /\ UNCHANGED <<attempt, sleep_for, request, sem_value, sem_waiters>>
    /\ UNCHANGED <<config, use_structured_output, test_cases, seen_keys, run,
                   calls>>

\* A waiter woken by a release enters the operation holding the slot.
ResumeTask(op) ==
    /\ pc[op] = "Woken"
    /\ \/ /\ BeginAttempt(op, 1)
          /\ UNCHANGED <<sem_value, sem_waiters, faults>>
       \/ /\ faults < MaxFaults
          /\ faults' = faults + 1
          /\ Ends(op, "Raised")
          /\ last_result' = [last_result EXCEPT ![op] = "raised"]
    /\ UNCHANGED <<config, use_structured_output, test_cases, seen_keys,
                   started, run, calls>>

\* Frame of a step in which one operation handles a response or a timer.
\* The event loop runs the first step of every task gather created before
\* it delivers any response or timer.
ResponseFrame ==
    /\ started = NumOps
    /\ UNCHANGED <<config, started, run, calls>>

\* _generate_with_structured_output: parse() returned a message.
\* parsed holds records of the schema; or parsed is None and the message
\* is a refusal, carries content for _parse_llm_response, or carries nothing.
StrictReturns(op) ==
    /\ pc[op] = "Requesting" /\ request[op] = "strict"
    /\ \/ \E batch \in ParsedBatches : Deliver(op, DumpAll(batch))
       \/ Deliver(op, <<>>)
       \/ \E content \in Texts \ {EmptyText} : Deliver(op, ParsedOf[content])
    /\ UNCHANGED use_structured_output
    /\ ResponseFrame

\* except ValidationError: return []
StrictValidationError(op) ==
    /\ pc[op] = "Requesting" /\ request[op] = "strict"
    /\ Deliver(op, <<>>)
    /\ UNCHANGED use_structured_output
    /\ ResponseFrame

\* StrictTruncated with line 360 in its branch too: JSON mode from now on.
StrictTruncatedForGood(op) ==
    /\ pc[op] = "Requesting" /\ request[op] = "strict"
    /\ use_structured_output' = FALSE
    /\ request' = [request EXCEPT ![op] = JsonMode]
    /\ UNCHANGED <<test_cases, seen_keys, pc, attempt, sleep_for, last_result,
                   faults, sem_value, sem_waiters>>
    /\ ResponseFrame

\* "length limit" / "could not parse response content": JSON mode for this
\* request only.
StrictTruncated(op) ==
    /\ pc[op] = "Requesting" /\ request[op] = "strict"
    /\ request' = [request EXCEPT ![op] = JsonMode]
    /\ UNCHANGED <<use_structured_output, test_cases, seen_keys, pc, attempt,
                   sleep_for, last_result, faults, sem_value, sem_waiters>>
    /\ ResponseFrame

\* StrictUnsupported without line 360: the fallback is for this request only.
StrictUnsupportedOnce(op) ==
    /\ pc[op] = "Requesting" /\ request[op] = "strict"
    /\ request' = [request EXCEPT ![op] = JsonMode]
    /\ last_result' = [last_result EXCEPT ![op] = "unsupported"]
    /\ UNCHANGED <<use_structured_output, test_cases, seen_keys, pc, attempt,
                   sleep_for, faults, sem_value, sem_waiters>>
    /\ ResponseFrame

\* "does not support" / "response_format": JSON mode from now on.
StrictUnsupported(op) ==
    /\ pc[op] = "Requesting" /\ request[op] = "strict"
    /\ use_structured_output' = FALSE
    /\ request' = [request EXCEPT ![op] = JsonMode]
    /\ last_result' = [last_result EXCEPT ![op] = "unsupported"]
    /\ UNCHANGED <<test_cases, seen_keys, pc, attempt, sleep_for, faults,
                   sem_value, sem_waiters>>
    /\ ResponseFrame

\* Any other exception of the strict call is re-raised into the retry loop.
StrictRaises(op) ==
    /\ pc[op] = "Requesting" /\ request[op] = "strict"
    /\ FailAttempt(op)
    /\ last_result' = [last_result EXCEPT ![op] = "error"]
    /\ UNCHANGED <<use_structured_output, test_cases, seen_keys>>
    /\ ResponseFrame

\* _generate_with_streaming: the stream ended, or broke after some content
\* had been collected; what was collected is parsed.
StreamReturns(op) ==
    /\ pc[op] = "Requesting" /\ request[op] = "stream"
    /\ \E collected_content \in Texts : Deliver(op, ParsedOf[collected_content])
    /\ UNCHANGED use_structured_output
    /\ ResponseFrame

\* The stream broke before any content: the non-streaming call is made.
StreamFails(op) ==
    /\ pc[op] = "Requesting" /\ request[op] = "stream"
    /\ request' = [request EXCEPT ![op] = "plain"]
    /\ UNCHANGED <<use_structured_output, test_cases, seen_keys, pc, attempt,
                   sleep_for, last_result, faults, sem_value, sem_waiters>>
    /\ ResponseFrame

\* _generate_without_streaming returned the message content.
PlainReturns(op) ==
    /\ pc[op] = "Requesting" /\ request[op] = "plain"
    /\ \E json_string \in Texts : Deliver(op, ParsedOf[json_string])
    /\ UNCHANGED use_structured_output
    /\ ResponseFrame

\* The non-streaming call raised: the exception reaches the retry loop.
PlainRaises(op) ==
    /\ pc[op] = "Requesting" /\ request[op] = "plain"
    /\ FailAttempt(op)
    /\ last_result' = [last_result EXCEPT ![op] = "error"]
    /\ UNCHANGED <<use_structured_output, test_cases, seen_keys>>
    /\ ResponseFrame

\* asyncio.sleep(retry_delay * (attempt + 1)) is over: the next attempt.
WakeFromSleep(op) ==
    /\ pc[op] = "Sleeping"
    /\ BeginAttempt(op, attempt[op] + 1)
    /\ UNCHANGED <<use_structured_output, test_cases, seen_keys,
                   sem_value, sem_waiters, faults>>
    /\ ResponseFrame

\* gather without return_exceptions=True: the first exception of a task
\* propagates out of generate_all_test_cases.
GatherPropagates ==
    /\ run = "gathering"
    /\ \/ \E op \in Ops : pc[op] = "Raised"
       \/ \A op \in Ops : pc[op] \in Terminal
    /\ run' = IF \E op \in Ops : pc[op] = "Raised" THEN "aborted" ELSE "returned"
    /\ UNCHANGED <<config, use_structured_output, test_cases, seen_keys,
                   sem_value, sem_waiters, started, pc, attempt, sleep_for,
                   request, last_result, faults, calls>>

\* asyncio.gather(*tasks, return_exceptions=True) completes when every task
\* has returned or raised; generate_all_test_cases returns self.test_cases.
GatherReturns ==
    /\ run = "gathering"
    /\ \A op \in Ops : pc[op] \in Terminal
    /\ run' = "returned"
    /\ UNCHANGED <<config, use_structured_output, test_cases, seen_keys,
                   sem_value, sem_waiters, started, pc, attempt, sleep_for,
                   request, last_result, faults, calls>>

Next ==
    \/ \E op \in Ops : StartTask(op)
    \/ \E op \in Ops : ResumeTask(op)
    \/ \E op \in Ops : StrictReturns(op)
    \/ \E op \in Ops : StrictValidationError(op)
    \/ \E op \in Ops : StrictTruncated(op)
    \/ \E op \in Ops : StrictUnsupported(op)
    \/ \E op \in Ops : StrictRaises(op)
    \/ \E op \in Ops : StreamReturns(op)
    \/ \E op \in Ops : StreamFails(op)
    \/ \E op \in Ops : PlainReturns(op)
    \/ \E op \in Ops : PlainRaises(op)
    \/ \E op \in Ops : WakeFromSleep(op)
    \/ GatherReturns

Spec == Init /\ [][Next]_vars

\* The model supports structured output and streaming is on, so that every
\* kind of request can occur in the run; deduplication is on, its default;
\* the ceiling is off or lets one operation in at a time.
InitAllModes ==
    /\ Init
    /\ use_structured_output
    /\ config.use_streaming
    /\ config.enable_deduplication
    /\ config.max_concurrent \in {0, 1}

\* The event loop keeps running whatever is ready: a task that can take a
\* step takes it, every request is answered or times out, every sleep ends.
FairSpec == InitAllModes /\ [][Next]_vars /\ WF_vars(Next)

\* ------------------------------------- a run against a reliable service

\* max_concurrent_requests is None or 0.
InitUnlimited == Init /\ config.max_concurrent = 0

\* The steps of a run in which no payload build raises and every request is
\* answered, with at least one recovered record.
NextReliable ==
    \/ \E op \in Ops : StartTask(op) /\ pc'[op] # "Raised"
    \/ \E op \in Ops : StrictReturns(op) /\ last_result'[op] # "empty"
    \/ \E op \in Ops : StreamReturns(op) /\ last_result'[op] # "empty"
    \/ \E op \in Ops : PlainReturns(op) /\ last_result'[op] # "empty"
    \/ \E op \in Ops : WakeFromSleep(op)
    \/ GatherReturns

SpecReliable == InitUnlimited /\ [][NextReliable]_vars

\* ------------------------------------- a run with the default retries

\* One attempt, or the default llm.retry_attempts; structured output,
\* streaming and deduplication as in InitAllModes.
InitBackoff ==
    /\ config \in [max_retries : {1, DefaultRetryAttempts},
                   max_concurrent : 0..MaxConcurrent,
                   enable_deduplication : {TRUE},
                   use_streaming : {TRUE},
                   retry_delay : {DefaultRetryDelay}]
    /\ use_structured_output = TRUE
    /\ test_cases = <<>>
    /\ seen_keys = {}
    /\ sem_value = config.max_concurrent
    /\ sem_waiters = <<>>
    /\ started = 0
    /\ pc = [op \in Ops |-> "NotStarted"]
    /\ attempt = [op \in Ops |-> 0]
    /\ sleep_for = [op \in Ops |-> 0]
    /\ request = [op \in Ops |-> "none"]
    /\ last_result = [op \in Ops |-> "none"]
    /\ faults = 0
    /\ run = "gathering"
    /\ NoCall

SpecBackoff == InitBackoff /\ [][Next]_vars

\* --------------------------------------- _parse_llm_response called alone

\* Most complete records in front of a record that is cut off.
MaxComplete == 2

\* Text before or between the JSON of a response.
Prose == <<"H", "e", "r", "e", ":", "\n">>

\* What follows the opening fence on its line: nothing, json, or js.
FenceTags == {<<>>, <<"j", "s", "o", "n">>, <<"j", "s">>}

\* JSON documents a response can wrap: one record, a list, a wrapper dict.
Payloads == {Dumps(Good), DumpList(<<Good, GoodAgain>>), Wrapped(<<NoType>>)}

\* A response that wraps payload in one fenced code block.
Fenced(tag, payload) ==
    Prose \o Fence \o tag \o <<"\n">> \o payload \o <<"\n">> \o Fence \o <<"\n">>

FencedTexts == {Fenced(tag, payload) : tag \in FenceTags, payload \in Payloads}

\* The tag and payload a fenced text was made of.
FencedOf ==
    [t \in FencedTexts |->
        CHOOSE f \in [tag : FenceTags, payload : Payloads] :
            Fenced(f.tag, f.payload) = t]

\* {"items":[...]}: a dict that holds the list under no wrapper key.
UnknownWrapper(batch) ==
    <<"{">> \o Quote(<<"i", "t", "e", "m", "s">>) \o <<":">> \o DumpList(batch) \o <<"}">>

\* A dict with two of the five signature keys.
Sparse ==
    [Base EXCEPT !.test_type = Absent, !.http_method = Absent,
                 !.test_steps = NoSteps]

\* Records written one per line after some prose.
InProse(batch) ==
    Prose \o Concat([n \in 1..Len(batch) |-> Dumps(batch[n])], <<"\n">>)

\* The same after the tail of an object whose beginning was lost.
AfterStrayBrace(batch) == <<"}", "\n">> \o InProse(batch)

\* Texts with whole objects outside any array.
ObjectTexts ==
    {InProse(<<Good>>), InProse(<<Good, Sparse, NoPath>>),
     InProse(<<NoType, EmptySteps>>), AfterStrayBrace(<<Good, NoPath>>)}

\* The records in front of a cut, and the record that is cut off.
Completes == <<Good, GoodAgain, NoType>>

Complete(n) == [i \in 1..n |-> Completes[((i - 1) % Len(Completes)) + 1]]

Later == [Base EXCEPT !.title = Str(<<"B">>)]

CutRecords == {Dumps(Later), DumpsStepsFirst(Later)}

\* An array of n complete records and the first at characters of a record.
Cuts ==
    UNION {{[n |-> n, record |-> record, at |-> at] : at \in 1..(Len(record) - 1)} :
              n \in 1..MaxComplete, record \in CutRecords}

CutArray(cut) ==
    <<"[">> \o Concat([i \in 1..cut.n |-> Dumps(Complete(cut.n)[i])], <<",">>)
            \o <<",">> \o SubSeq(cut.record, 1, cut.at)

\* Each cut with the text it makes (written once per cut).
CutWithText == {[cut |-> cut, text |-> CutArray(cut)] : cut \in Cuts}

CutTexts == {made.text : made \in CutWithText}

\* The cut a truncated text was made by.
CutOf == [t \in CutTexts |-> (CHOOSE made \in CutWithText : made.text = t).cut]

\* The texts _parse_llm_response is called with.
ParseTexts ==
    Texts \cup Payloads \cup FencedTexts \cup ObjectTexts \cup CutTexts
        \cup {UnknownWrapper(<<Good>>), Prose \o DumpList(<<Good, NoType>>)}

\* json.loads of each text (the function is pure: computed once).
Documents == [t \in ParseTexts |-> JsonLoads(t)]

\* Strategy of each text (the function is pure: computed once).
StrategyOf == [t \in ParseTexts |-> [n \in 1..5 |-> Strategy(t, n)]]

\* _parse_llm_response is called with a text, outside any run.
\* A generator built with the default configuration, no run started.
IdleRun ==
    /\ config = [max_retries |-> DefaultRetryAttempts,
                 max_concurrent |-> 0,
                 enable_deduplication |-> TRUE,
                 use_streaming |-> TRUE,
                 retry_delay |-> DefaultRetryDelay]
    /\ use_structured_output = TRUE
    /\ test_cases = <<>>
    /\ seen_keys = {}
    /\ sem_value = 0
    /\ sem_waiters = <<>>
    /\ started = 0
    /\ pc = [op \in Ops |-> "NotStarted"]
    /\ attempt = [op \in Ops |-> 0]
    /\ sleep_for = [op \in Ops |-> 0]
    /\ request = [op \in Ops |-> "none"]
    /\ last_result = [op \in Ops |-> "none"]
    /\ faults = 0
    /\ run = "gathering"

InitParse ==
    /\ IdleRun
    /\ response_text \in ParseTexts
    /\ strategy_no = 0
    /\ returned = FALSE
    /\ recovered = <<>>
    /\ NoKeyCall
    /\ NoLockCall
    /\ NoResolveCall
    /\ NoGatherCall
    /\ NoValidateCall
    /\ NoScanCall

\* if not json_string: return []
EntryTest ==
    /\ strategy_no = 0 /\ ~returned
    /\ IF response_text = <<>>
       THEN returned' = TRUE /\ UNCHANGED strategy_no
       ELSE strategy_no' = 1 /\ UNCHANGED returned
    /\ UNCHANGED <<response_text, recovered, outside_parse>>

\* The n-th strategy runs: the function returns its list, or goes on to
\* the next strategy.
TryStrategy(n) ==
    /\ strategy_no = n /\ ~returned
    /\ IF StrategyOf[response_text][n].returns
       THEN /\ returned' = TRUE
            /\ recovered' = StrategyOf[response_text][n].cases
            /\ UNCHANGED strategy_no
       ELSE /\ strategy_no' = n + 1
            /\ UNCHANGED <<returned, recovered>>
    /\ UNCHANGED <<response_text, outside_parse>>

\* Strategy 1: Direct JSON parse
DirectParse ==
    /\ strategy_no = 1
    /\ TryStrategy(1)

\* Strategy 2: Extract from markdown code block
CodeBlockExtract ==
    /\ strategy_no = 2
    /\ TryStrategy(2)

\* Strategy 3: Find array boundaries
ArrayExtract ==
    /\ strategy_no = 3
    /\ TryStrategy(3)

\* Strategy 4: Repair truncated JSON
BalancedRepair ==
    /\ strategy_no = 4
    /\ TryStrategy(4)

\* Strategy 5: Extract individual complete objects
ObjectSalvage ==
    /\ strategy_no = 5
    /\ TryStrategy(5)

NextParse ==
    \/ EntryTest
    \/ DirectParse
    \/ CodeBlockExtract
    \/ ArrayExtract
    \/ BalancedRepair
    \/ ObjectSalvage

SpecParse == InitParse /\ [][NextParse]_vars

\* ------------------------------------------- get_unique_key called alone

\* A text one character longer than the part of it that enters the key.
LongText(last) == Repeat("a", KeyPrefixLen) \o <<last>>

\* The record the others are variations of.
KeyBase == TestCase(Good)

\* Expected results of a first step: short, with a leading blank, and two
\* that differ after the first KeyPrefixLen characters.
FirstResults == {<<"b">>, <<" ", "b">>, LongText("x"), LongText("y")}

\* The steps after the first: none or one.
LaterSteps == {<<>>, <<[action |-> Str(<<"c">>), expected_result |-> Str(<<"d">>)]>>}

\* The TestCase objects get_unique_key is called on.
KeyCases ==
    {[KeyBase EXCEPT !.test_type = test_type,
                     !.description = Str(description),
                     !.test_steps = <<[action |-> Str(<<"a">>),
                                       expected_result |-> Str(result)]>> \o later] :
         test_type \in {Positive, Negative},
         description \in {<<>>, <<"d">>},
         result \in FirstResults,
         later \in LaterSteps}
    \cup {[KeyBase EXCEPT !.title = Str(LongText(c))] : c \in {"x", "y"}}
    \cup {[KeyBase EXCEPT !.test_steps[1].action = Str(LongText(c))] : c \in {"x", "y"}}
    \cup {[KeyBase EXCEPT !.priority = High],
          [KeyBase EXCEPT !.preconditions = Str(<<"p">>)],
          [KeyBase EXCEPT !.test_steps = <<>>],
          [KeyBase EXCEPT !.test_type = <<"A", "|", "B">>, !.design_technique = <<"C">>],
          [KeyBase EXCEPT !.test_type = <<"A">>, !.design_technique = <<"B", "|", "C">>],
          [KeyBase EXCEPT !.title = Str(<<"A", "|", "B">>),
                          !.test_steps[1].action = Str(<<"C">>)],
          [KeyBase EXCEPT !.title = Str(<<"A">>),
                          !.test_steps[1].action = Str(<<"B", "|", "C">>)]}

\* get_unique_key of each of them (the function is pure: computed once).
KeyOf == [test_case \in KeyCases |-> GetUniqueKey(test_case)]

InitKey ==
    /\ IdleRun
    /\ NoParseCall
    /\ first_case \in KeyCases
    /\ second_case \in KeyCases
    /\ first_key = <<>>
    /\ second_key = <<>>
    /\ NoLockCall
    /\ NoResolveCall
    /\ NoGatherCall
    /\ NoValidateCall
    /\ NoScanCall

\* first_case.get_unique_key()
KeyOfFirst ==
    /\ first_key = <<>>
    /\ first_key' = KeyOf[first_case]
    /\ UNCHANGED <<first_case, second_case, second_key, outside_key>>

\* second_case.get_unique_key()
KeyOfSecond ==
    /\ second_key = <<>>
    /\ second_key' = KeyOf[second_case]
    /\ UNCHANGED <<first_case, second_case, first_key, outside_key>>

NextKey ==
    \/ KeyOfFirst
    \/ KeyOfSecond

SpecKey == InitKey /\ [][NextKey]_vars

\* ------------------------------- _process_generated_cases under self.lock

\* The body of the with block holds no await, so the event loop runs it in
\* one piece; its steps are kept apart here, so that exclusion rests on
\* the lock alone, as it does under any scheduler.

\* What _process_generated_cases does not touch.
rest_of_run ==
    <<config, use_structured_output, sem_value, sem_waiters, started, attempt,
      sleep_for, request, last_result, faults, run>>

\* Every operation has a list to process (line 292 lets no empty list
\* through), held as the candidates lines 738-751 make of each case, and is
\* about to reach the lock.
InitLock ==
    /\ IdleRun
    /\ NoParseCall
    /\ NoKeyCall
    /\ NoResolveCall
    /\ NoGatherCall
    /\ NoValidateCall
    /\ NoScanCall
    /\ lock = [locked |-> FALSE, waiters |-> <<>>]
    /\ \E built \in {Built} :
          \E cases_data \in [Ops -> DOMAIN built \ {<<>>}] :
              processing = [op \in Ops |-> built[cases_data[op]][op]]
    /\ case_no = [op \in Ops |-> 0]
    /\ key_is_new = [op \in Ops |-> "unset"]

\* The candidate the for loop of op stands at.
CurrentCase(op) == processing[op][case_no[op]]

\* async with self.lock, entered without looking at the lock.
AcquireLockUntested(op) ==
    /\ pc[op] = "NotStarted"
    /\ lock' = [lock EXCEPT !.locked = TRUE]
    /\ pc' = [pc EXCEPT ![op] = "Locked"]
    /\ case_no' = [case_no EXCEPT ![op] = 1]
    /\ UNCHANGED <<test_cases, seen_keys, processing, key_is_new, rest_of_run, outside_lock>>

\* async with self.lock: asyncio.Lock.acquire takes a free lock nobody waits
\* for, and else queues the coroutine.
AcquireLock(op) ==
    /\ pc[op] = "NotStarted"
    /\ IF ~lock.locked /\ lock.waiters = <<>>
       THEN /\ lock' = [lock EXCEPT !.locked = TRUE]
            /\ pc' = [pc EXCEPT ![op] = "Locked"]
            /\ case_no' = [case_no EXCEPT ![op] = 1]
       ELSE /\ lock' = [lock EXCEPT !.waiters = Append(@, op)]
            /\ pc' = [pc EXCEPT ![op] = "LockWait"]
            /\ UNCHANGED case_no
    /\ UNCHANGED <<test_cases, seen_keys, processing, key_is_new, rest_of_run, outside_lock>>

\* The first waiter, woken by a release, takes the lock.
WakeLockWaiter(op) ==
    /\ pc[op] = "LockWait"
    /\ ~lock.locked
    /\ lock.waiters # <<>> /\ Head(lock.waiters) = op
    /\ lock' = [locked |-> TRUE, waiters |-> Tail(lock.waiters)]
    /\ pc' = [pc EXCEPT ![op] = "Locked"]
    /\ case_no' = [case_no EXCEPT ![op] = 1]
    /\ UNCHANGED <<test_cases, seen_keys, processing, key_is_new, rest_of_run, outside_lock>>

\* One iteration of the for loop up to the test of seen_keys (lines
\* 738-756): a valid record under deduplication has its key looked up;
\* any other case is dealt with at once, and a record that raises leaves
\* the with block, which releases the lock.
CheckCase(op) ==
    /\ pc[op] = "Locked"
    /\ case_no[op] <= Len(processing[op])
    /\ LET built == CurrentCase(op)
       IN IF built.kind = "valid" /\ config.enable_deduplication /\ ~built.key_raised
          THEN /\ key_is_new' = [key_is_new EXCEPT ![op] =
                                    IF built.unique_key \notin seen_keys
                                    THEN "new" ELSE "seen"]
               /\ pc' = [pc EXCEPT ![op] = "Inserting"]
               /\ UNCHANGED <<test_cases, seen_keys, lock, case_no>>
          ELSE LET acc == ProcessCase([test_cases |-> test_cases,
                                       seen_keys |-> seen_keys,
                                       valid_count |-> 0, raised |-> FALSE],
                                      built, config.enable_deduplication)
               IN /\ test_cases' = acc.test_cases
                  /\ seen_keys' = acc.seen_keys
                  /\ IF acc.raised
                     THEN /\ lock' = [lock EXCEPT !.locked = FALSE]
                          /\ pc' = [pc EXCEPT ![op] = "Raised"]
                          /\ UNCHANGED case_no
                     ELSE /\ case_no' = [case_no EXCEPT ![op] = @ + 1]
                          /\ UNCHANGED <<lock, pc>>
                  /\ UNCHANGED key_is_new
    /\ UNCHANGED <<processing, rest_of_run, outside_lock>>

\* The rest of the iteration (lines 757-763): a new key is added and the
\* record appended, a seen one is skipped.
InsertCase(op) ==
    /\ pc[op] = "Inserting"
    /\ IF key_is_new[op] = "new"
       THEN /\ seen_keys' = seen_keys \cup {CurrentCase(op).unique_key}
            /\ test_cases' = Append(test_cases, CurrentCase(op).test_case)
       ELSE UNCHANGED <<test_cases, seen_keys>>
    /\ key_is_new' = [key_is_new EXCEPT ![op] = "unset"]
    /\ case_no' = [case_no EXCEPT ![op] = @ + 1]
    /\ pc' = [pc EXCEPT ![op] = "Locked"]
    /\ UNCHANGED <<lock, processing, rest_of_run, outside_lock>>

\* The loop is over: the with block releases the lock and the function
\* returns.
ReleaseLock(op) ==
    /\ pc[op] = "Locked"
    /\ case_no[op] > Len(processing[op])
    /\ lock' = [lock EXCEPT !.locked = FALSE]
    /\ pc' = [pc EXCEPT ![op] = "Succeeded"]
    /\ UNCHANGED <<test_cases, seen_keys, processing, case_no, key_is_new,
                   rest_of_run, outside_lock>>

NextLock ==
    \E op \in Ops :
        \/ AcquireLock(op)
        \/ WakeLockWaiter(op)
        \/ CheckCase(op)
        \/ InsertCase(op)
        \/ ReleaseLock(op)

SpecLock == InitLock /\ [][NextLock]_vars

\* ---------------------------------------------- inputs: specification documents

\* The longest reference cycle of the documents.
MaxCycle == 3

Digit(i) == <<"0", "1", "2", "3", "4", "5", "6", "7", "8", "9">>[i + 1]

\* The prefixes of the schema pointers of the two dialects.
V1Prefix == <<"#", "/", "d", "e", "f", "i", "n", "i", "t", "i", "o", "n", "s", "/">>

V2Prefix == <<"#", "/", "c", "o", "m", "p", "o", "n", "e", "n", "t", "s", "/", "s", "c", "h", "e", "m", "a", "s", "/">>

\* {"$ref": ref_path}
RefTo(ref_path) == Dict(<<RefKey>>, <<Str(ref_path)>>)

\* The i-th schema of the cycle of n schemas: each refers to the next, the
\* last to the first.
RingName(n, i) == <<"R", Digit(n), Digit(i)>>

RingSchema(prefix, n, i) ==
    Dict(<<<<"n", "e", "x", "t">>>>, <<RefTo(prefix \o RingName(n, (i % n) + 1))>>)

RECURSIVE RingNames(_)
RingNames(n) ==
    IF n = 0 THEN <<>> ELSE RingNames(n - 1) \o [i \in 1..n |-> RingName(n, i)]

RECURSIVE RingSchemas(_, _)
RingSchemas(prefix, n) ==
    IF n = 0 THEN <<>>
    ELSE RingSchemas(prefix, n - 1) \o [i \in 1..n |-> RingSchema(prefix, n, i)]

\* Schemas without a cycle: User; Order, which refers to User at two
\* sibling properties; Choice, which refers to it at two items of a list;
\* an empty schema and a schema that refers to it; a schema that refers to
\* another file; a schema with a property named $ref; a schema with lists
\* and dicts inside and no reference.
PlainNames == <<<<"K", "i", "n", "d">>, <<"U", "s", "e", "r">>, <<"O", "r", "d", "e", "r">>, <<"C", "h", "o", "i", "c", "e">>, <<"E", "m", "p", "t", "y">>, <<"H", "o", "l", "d", "e", "r">>, <<"R", "e", "m", "o", "t", "e">>, <<"O", "d", "d">>>>

PlainSchemas(prefix) ==
    <<Dict(<<<<"e", "n", "u", "m">>, <<"x", "m", "l">>>>,
           <<List(<<Str(<<"a">>), Null, List(<<>>)>>),
             Dict(<<<<"n", "a", "m", "e">>, <<"a", "t", "t", "r">>>>, <<Str(<<"k">>), EmptyDict>>)>>),
      Dict(<<<<"t", "y", "p", "e">>>>, <<Str(<<"o", "b", "j", "e", "c", "t">>)>>),
      Dict(<<<<"b", "u", "y", "e", "r">>, <<"s", "e", "l", "l", "e", "r">>>>,
           <<RefTo(prefix \o <<"U", "s", "e", "r">>), RefTo(prefix \o <<"U", "s", "e", "r">>)>>),
      Dict(<<<<"a", "n", "y", "O", "f">>>>,
           <<List(<<RefTo(prefix \o <<"U", "s", "e", "r">>), RefTo(prefix \o <<"U", "s", "e", "r">>)>>)>>),
      EmptyDict,
      Dict(<<<<"i", "t", "e", "m">>>>, <<RefTo(prefix \o <<"E", "m", "p", "t", "y">>)>>),
      Dict(<<<<"i", "t", "e", "m">>>>, <<RefTo(<<"o", "t", "h", "e", "r", ".", "j", "s", "o", "n", "#", "/", "U", "s", "e", "r">>)>>),
      Dict(<<<<"p", "r", "o", "p", "e", "r", "t", "i", "e", "s">>>>,
           <<Dict(<<RefKey>>, <<Dict(<<<<"t", "y", "p", "e">>>>, <<Str(<<"s", "t", "r", "i", "n", "g">>)>>)>>)>>)>>

SchemaNames == PlainNames \o RingNames(MaxCycle)

SchemasOf(prefix) ==
    Dict(SchemaNames, PlainSchemas(prefix) \o RingSchemas(prefix, MaxCycle))

InfoObject == Dict(<<<<"t", "i", "t", "l", "e">>>>, <<Str(<<"A", "P", "I">>)>>)

\* A Swagger 2.0 document, an OpenAPI 3 document, and a document that names
\* no version.
V1Document ==
    Dict(<<SwaggerKey, <<"i", "n", "f", "o">>, DefinitionsKey>>,
         <<Str(<<"2", ".", "0">>), InfoObject, SchemasOf(V1Prefix)>>)

V2Document ==
    Dict(<<OpenapiKey, <<"i", "n", "f", "o">>, ComponentsKey>>,
         <<Str(<<"3", ".", "0", ".", "0">>), InfoObject, Dict(<<SchemasKey>>, <<SchemasOf(V2Prefix)>>)>>)

UnversionedDocument ==
    Dict(<<<<"i", "n", "f", "o">>, DefinitionsKey>>, <<InfoObject, SchemasOf(V1Prefix)>>)

SpecDocuments == {V1Document, V2Document, UnversionedDocument}

\* The pointers that are resolved: every schema by the pointer of either
\* dialect, the schema sections themselves, other parts of the document,
\* a part below a schema, another file.
Pointers ==
    {prefix \o SchemaNames[n] : prefix \in {V1Prefix, V2Prefix},
                                n \in 1..Len(SchemaNames)}
    \cup {<<"#", "/", "d", "e", "f", "i", "n", "i", "t", "i", "o", "n", "s">>, <<"#", "/", "c", "o", "m", "p", "o", "n", "e", "n", "t", "s">>, <<"#", "/", "c", "o", "m", "p", "o", "n", "e", "n", "t", "s", "/", "s", "c", "h", "e", "m", "a", "s">>,
          <<"#", "/", "i", "n", "f", "o">>, <<"#", "/", "i", "n", "f", "o", "/", "t", "i", "t", "l", "e">>, <<"#", "/">>, <<"o", "t", "h", "e", "r", ".", "j", "s", "o", "n", "#", "/", "U", "s", "e", "r">>,
          <<"#", "/", "d", "e", "f", "i", "n", "i", "t", "i", "o", "n", "s", "/", "O", "r", "d", "e", "r", "/", "b", "u", "y", "e", "r">>, <<"#", "/", "c", "o", "m", "p", "o", "n", "e", "n", "t", "s", "/", "s", "c", "h", "e", "m", "a", "s", "/", "O", "r", "d", "e", "r", "/", "b", "u", "y", "e", "r">>,
          <<"#", "/", "d", "e", "f", "i", "n", "i", "t", "i", "o", "n", "s", "/", "M", "i", "s", "s", "i", "n", "g">>, <<"#", "/", "c", "o", "m", "p", "o", "n", "e", "n", "t", "s", "/", "s", "c", "h", "e", "m", "a", "s", "/", "M", "i", "s", "s", "i", "n", "g">>}

\* -------------------------------------------- resolve_refs_recursive called alone

\* The recursion of resolve_refs_recursive is kept as the stack of its
\* calls that wait for an inner call: frames holds, innermost first, the
\* $ref nodes whose target is being resolved and the dicts and lists whose
\* members are being resolved, with the members resolved so far.
Frame(kind, ref_path, node, out) ==
    [kind |-> kind, ref_path |-> ref_path, node |-> node, out |-> out]

\* The pointers whose expansion is under way.
ActivePath ==
    {frames[n].ref_path : n \in {m \in 1..Len(frames) : frames[m].kind = "ref"}}

Call(obj) == [kind |-> "call", obj |-> obj]

Return(obj) == [kind |-> "return", obj |-> obj]

\* A parser that has loaded a document and detected its version;
\* resolve_refs_recursive is called on a $ref node, with visited_refs None.
InitResolve ==
    /\ IdleRun
    /\ NoParseCall
    /\ NoKeyCall
    /\ NoLockCall
    /\ NoGatherCall
    /\ NoValidateCall
    /\ NoScanCall
    /\ spec \in SpecDocuments
    /\ spec_version = DetectVersion(spec)
    /\ resolving \in {Call(RefTo(ref_path)) : ref_path \in Pointers}
    /\ frames = <<>>
    /\ visited_refs = {}
    /\ resolved = NoPointerCall

\* Lines 161-173: the dict holds $ref. A pointer met before gives the
\* sentinel; a new one is added to visited_refs and looked up, and the
\* function goes into what it found, or returns the node as it is when
\* it found nothing.
VisitRef ==
    /\ resolving.kind = "call"
    /\ resolving.obj.k = "obj"
    /\ Has(resolving.obj, RefKey)
    /\ IF Value(resolving.obj, RefKey).k # "str"
       THEN /\ resolving' = [kind |-> "raised", obj |-> resolving.obj]
            /\ UNCHANGED <<frames, visited_refs, resolved>>
       ELSE IF Revisited(Value(resolving.obj, RefKey).s, visited_refs)
       THEN /\ resolving' = Return(Sentinel(Value(resolving.obj, RefKey).s))
            /\ UNCHANGED <<frames, visited_refs, resolved>>
       ELSE /\ visited_refs' = visited_refs \cup {Value(resolving.obj, RefKey).s}
            /\ resolved' = [ref_path |-> Value(resolving.obj, RefKey).s,
                            result |-> ResolveRef(spec, spec_version,
                                                  Value(resolving.obj, RefKey).s)]
            /\ IF resolved'.result.raises
               THEN /\ resolving' = [kind |-> "raised", obj |-> resolving.obj]
                    /\ UNCHANGED frames
               ELSE IF NotEmpty(resolved'.result.v)
               THEN /\ frames' = <<Frame("ref", resolved'.ref_path, resolving.obj, <<>>)>>
                                    \o frames
                    /\ resolving' = Call(resolved'.result.v)
               ELSE /\ resolving' = Return(resolving.obj)
                    /\ UNCHANGED frames
    /\ UNCHANGED <<spec, spec_version, outside_resolve>>

\* Line 175: a dict without $ref; its values are resolved in order.
VisitDict ==
    /\ resolving.kind = "call"
    /\ resolving.obj.k = "obj"
    /\ ~Has(resolving.obj, RefKey)
    /\ IF resolving.obj.keys = <<>>
       THEN resolving' = Return(EmptyDict) /\ UNCHANGED frames
       ELSE /\ frames' = <<Frame("dict", <<>>, resolving.obj, <<>>)>> \o frames
            /\ resolving' = Call(resolving.obj.vals[1])
    /\ UNCHANGED <<spec, spec_version, visited_refs, resolved, outside_resolve>>

\* Lines 176-177: a list; its items are resolved in order.
VisitList ==
    /\ resolving.kind = "call"
    /\ resolving.obj.k = "list"
    /\ IF resolving.obj.l = <<>>
       THEN resolving' = Return(List(<<>>)) /\ UNCHANGED frames
       ELSE /\ frames' = <<Frame("list", <<>>, resolving.obj, <<>>)>> \o frames
            /\ resolving' = Call(resolving.obj.l[1])
    /\ UNCHANGED <<spec, spec_version, visited_refs, resolved, outside_resolve>>

\* VisitScalar with None returned for the value.
VisitScalarAsNone ==
    /\ resolving.kind = "call"
    /\ resolving.obj.k \notin {"obj", "list"}
    /\ resolving' = Return(Null)
    /\ UNCHANGED <<spec, spec_version, frames, visited_refs, resolved, outside_resolve>>

\* Line 178: anything else is returned as it is.
VisitScalar ==
    /\ resolving.kind = "call"
    /\ resolving.obj.k \notin {"obj", "list"}
    /\ resolving' = Return(resolving.obj)
    /\ UNCHANGED <<spec, spec_version, frames, visited_refs, resolved, outside_resolve>>

\* Line 172: the call on a $ref node returns what the call on its target
\* returned.
ReturnTarget ==
    /\ resolving.kind = "return"
    /\ frames # <<>>
    /\ Head(frames).kind = "ref"
    /\ frames' = Tail(frames)
    /\ UNCHANGED <<spec, spec_version, resolving, visited_refs, resolved, outside_resolve>>

\* The members of the dict or list of the innermost call, in order.
Members(node) == IF node.k = "obj" THEN node.vals ELSE node.l

\* The dict or list built from the resolved members.
Rebuilt(node, out) == IF node.k = "obj" THEN Dict(node.keys, out) ELSE List(out)

\* Lines 175 and 177: a member has been resolved; the next one is resolved,
\* or the dict or list is complete and is returned.
ReturnMember ==
    /\ resolving.kind = "return"
    /\ frames # <<>>
    /\ Head(frames).kind \in {"dict", "list"}
    /\ IF Len(Head(frames).out) + 1 < Len(Members(Head(frames).node))
       THEN /\ frames' = <<[Head(frames) EXCEPT !.out = Append(@, resolving.obj)]>>
                            \o Tail(frames)
            /\ resolving' = Call(Members(Head(frames).node)[Len(Head(frames).out) + 2])
       ELSE /\ frames' = Tail(frames)
            /\ resolving' = Return(Rebuilt(Head(frames).node,
                                           Append(Head(frames).out, resolving.obj)))
    /\ UNCHANGED <<spec, spec_version, visited_refs, resolved, outside_resolve>>

\* The outermost call returns to its caller.
ReturnResolved ==
    /\ resolving.kind = "return"
    /\ frames = <<>>
    /\ resolving' = [kind |-> "done", obj |-> resolving.obj]
    /\ UNCHANGED <<spec, spec_version, frames, visited_refs, resolved, outside_resolve>>

NextResolve ==
    \/ VisitRef
    \/ VisitDict
    \/ VisitList
    \/ VisitScalar
    \/ ReturnTarget
    \/ ReturnMember
    \/ ReturnResolved

\* A call that has begun runs on: nothing but the interpreter schedules it.
SpecResolve == InitResolve /\ [][NextResolve]_vars /\ WF_vars(NextResolve)

\* -------------------------------------- generate_all_test_cases: the operations

LowerLetters ==
    <<"a", "b", "c", "d", "e", "f", "g", "h", "i", "j", "k", "l", "m",
      "n", "o", "p", "q", "r", "s", "t", "u", "v", "w", "x", "y", "z">>

UpperLetters ==
    <<"A", "B", "C", "D", "E", "F", "G", "H", "I", "J", "K", "L", "M",
      "N", "O", "P", "Q", "R", "S", "T", "U", "V", "W", "X", "Y", "Z">>

\* The letter of the other alphabet at the place c has in its own.
Swapped(c, from, to) ==
    IF \E i \in 1..Len(from) : from[i] = c
    THEN to[CHOOSE i \in 1..Len(from) : from[i] = c]
    ELSE c

\* method.lower()
LowerOf(s) == [i \in 1..Len(s) |-> Swapped(s[i], UpperLetters, LowerLetters)]

\* method.upper()
UpperOf(s) == [i \in 1..Len(s) |-> Swapped(s[i], LowerLetters, UpperLetters)]

\* x in l, for a list of strings
InList(x, l) == \E n \in 1..Len(l) : l[n] = x

\* Config.should_process_path
ShouldProcessPath(wanted, path) ==
    /\ ~(/\ wanted.include_paths # <<>>
         /\ ~\E n \in 1..Len(wanted.include_paths) :
                StartsWith(path, 1, wanted.include_paths[n]))
    /\ ~(/\ wanted.exclude_paths # <<>>
         /\ \E n \in 1..Len(wanted.exclude_paths) :
               StartsWith(path, 1, wanted.exclude_paths[n]))

\* Config.should_process_method without the filter: every method passes.
ShouldProcessAnyMethod(wanted, method) == TRUE

\* Config.should_process_method
ShouldProcessMethod(wanted, method) ==
    wanted.include_methods # <<>> =>
        \E n \in 1..Len(wanted.include_methods) :
            UpperOf(wanted.include_methods[n]) = UpperOf(method)

\* Config.should_process_tag, tags being a list of strings
ShouldProcessTag(wanted, tags) ==
    wanted.include_tags # <<>> =>
        \E n \in 1..Len(tags) : InList(tags[n].s, wanted.include_tags)

\* resolve_refs_recursive as one call gives its result: the resolved value
\* and the pointers met, or an exception.
Resolution(v, visited) == [raises |-> FALSE, v |-> v, visited |-> visited]

ResolutionRaises == [raises |-> TRUE, v |-> EmptyDict, visited |-> {}]

RECURSIVE ResolveRefsRecursive(_, _, _, _)
RECURSIVE ResolveMembers(_, _, _, _, _, _)

\* Lines 168-173: the target of a new pointer is resolved in its turn; a
\* pointer that leads to nothing leaves the node as it is.
ResolveTarget(doc, version, obj, target, visited) ==
    IF target.raises THEN ResolutionRaises
    ELSE IF NotEmpty(target.v)
    THEN ResolveRefsRecursive(doc, version, target.v, visited)
    ELSE Resolution(obj, visited)

\* Lines 162-173: the node holds $ref.
ResolvePointer(doc, version, obj, ref, visited) ==
    IF ref.k # "str" THEN ResolutionRaises
    ELSE IF Revisited(ref.s, visited) THEN Resolution(Sentinel(ref.s), visited)
    ELSE ResolveTarget(doc, version, obj, ResolveRef(doc, version, ref.s),
                       visited \cup {ref.s})

\* The n-th member has been resolved: the next one follows, with the
\* pointers met so far.
ResolveNext(doc, version, node, n, out, member) ==
    IF member.raises THEN ResolutionRaises
    ELSE ResolveMembers(doc, version, node, n + 1, Append(out, member.v),
                        member.visited)

\* Lines 175 and 177: the members of a dict or list from the n-th on, in
\* order.
ResolveMembers(doc, version, node, n, out, visited) ==
    IF n > Len(Members(node)) THEN Resolution(Rebuilt(node, out), visited)
    ELSE ResolveNext(doc, version, node, n, out,
                     ResolveRefsRecursive(doc, version, Members(node)[n], visited))

\* resolve_refs_recursive
ResolveRefsRecursive(doc, version, obj, visited) ==
    IF obj.k = "obj" /\ Has(obj, RefKey)
    THEN ResolvePointer(doc, version, obj, Value(obj, RefKey), visited)
    ELSE IF obj.k \in {"obj", "list"}
    THEN ResolveMembers(doc, version, obj, 1, <<>>, visited)
    ELSE Resolution(obj, visited)

\* get_paths
GetPaths(doc) == IF Has(doc, <<"p", "a", "t", "h", "s">>) THEN Value(doc, <<"p", "a", "t", "h", "s">>) ELSE EmptyDict

\* get_operation_details for a method the path holds: the operation with
\* its references resolved; copy() raises on what is not a dict.
GetOperationDetails(doc, version, path, method) ==
    IF Value(Value(GetPaths(doc), path), LowerOf(method)).k # "obj"
    THEN ResolutionRaises
    ELSE ResolveRefsRecursive(doc, version,
                              Value(Value(GetPaths(doc), path), LowerOf(method)), {})

\* operation.get('tags', [])
TagsOf(operation) ==
    IF Has(operation, <<"t", "a", "g", "s">>) THEN Value(operation, <<"t", "a", "g", "s">>).l ELSE <<>>

\* What the loops of lines 184-201 have made so far: the operations
\* gathered, or an exception.
Gathered(list) == [raises |-> FALSE, operations |-> list]

GatherRaises == [raises |-> TRUE, operations |-> <<>>]

Operation(path, method, operation) ==
    [path |-> path, method |-> method, operation |-> operation]

\* Lines 194-201: an operation that is not empty and whose tags pass is
\* added.
WithOperation(wanted, gathered, path, method, details) ==
    IF details.raises THEN GatherRaises
    ELSE IF NotEmpty(details.v) /\ ShouldProcessTag(wanted, TagsOf(details.v))
    THEN Gathered(Append(gathered.operations, Operation(path, method, details.v)))
    ELSE gathered

\* Lines 189-201: one method of one path.
GatherMethod(doc, version, wanted, gathered, path, method) ==
    IF gathered.raises THEN gathered
    ELSE IF ~ShouldProcessMethod(wanted, method) THEN gathered
    ELSE IF ~Has(Value(GetPaths(doc), path), LowerOf(method)) THEN gathered
    ELSE WithOperation(wanted, gathered, path, method,
                       GetOperationDetails(doc, version, path, method))

\* for method in self.http_methods, from the n-th method on
RECURSIVE GatherMethods(_, _, _, _, _, _)
GatherMethods(doc, version, wanted, gathered, path, n) ==
    IF n > Len(HttpMethods) THEN gathered
    ELSE GatherMethods(doc, version, wanted,
                       GatherMethod(doc, version, wanted, gathered, path, HttpMethods[n]),
                       path, n + 1)

\* Lines 184-201: one path.
GatherPath(doc, version, wanted, gathered, path) ==
    IF gathered.raises \/ ~ShouldProcessPath(wanted, path) THEN gathered
    ELSE GatherMethods(doc, version, wanted, gathered, path, 1)

\* for path, path_item in paths.items(), from the n-th path on
RECURSIVE GatherPaths(_, _, _, _, _)
GatherPaths(doc, version, wanted, gathered, n) ==
    IF n > Len(GetPaths(doc).keys) THEN gathered
    ELSE GatherPaths(doc, version, wanted,
                     GatherPath(doc, version, wanted, gathered, GetPaths(doc).keys[n]),
                     n + 1)

\* schema_ref.split('/')[-1]
LastPart(parts) == parts[Len(parts)]

\* Lines 210-213 and 222-225 of get_relevant_schemas: the schema of that
\* name in the schema section of the dialect.
NamedSchema(doc, version, schema_name) ==
    IF version = "openapi3"
    THEN GetChain(Gives(doc), <<ComponentsKey, SchemasKey, schema_name>>).v
    ELSE GetChain(Gives(doc), <<DefinitionsKey, schema_name>>).v

\* x.get('schema', {}).get('$ref', ''): the pointer, <<>> when there is
\* none.
SchemaRef(holder) ==
    IF Has(holder, <<"s", "c", "h", "e", "m", "a">>) /\ Has(Value(holder, <<"s", "c", "h", "e", "m", "a">>), RefKey)
    THEN Value(Value(holder, <<"s", "c", "h", "e", "m", "a">>), RefKey).s
    ELSE <<>>

\* Lines 203-213: the pointers of the request body's content, in order.
BodyRefs(operation) ==
    IF Has(operation, <<"r", "e", "q", "u", "e", "s", "t", "B", "o", "d", "y">>) /\ Has(Value(operation, <<"r", "e", "q", "u", "e", "s", "t", "B", "o", "d", "y">>), <<"c", "o", "n", "t", "e", "n", "t">>)
    THEN [n \in 1..Len(Value(Value(operation, <<"r", "e", "q", "u", "e", "s", "t", "B", "o", "d", "y">>), <<"c", "o", "n", "t", "e", "n", "t">>).vals) |->
             SchemaRef(Value(Value(operation, <<"r", "e", "q", "u", "e", "s", "t", "B", "o", "d", "y">>), <<"c", "o", "n", "t", "e", "n", "t">>).vals[n])]
    ELSE <<>>

\* Lines 216-225: the pointers of the body parameters, in order.
ParameterRefs(operation) ==
    IF Has(operation, <<"p", "a", "r", "a", "m", "e", "t", "e", "r", "s">>)
    THEN [n \in 1..Len(Value(operation, <<"p", "a", "r", "a", "m", "e", "t", "e", "r", "s">>).l) |->
             IF /\ Has(Value(operation, <<"p", "a", "r", "a", "m", "e", "t", "e", "r", "s">>).l[n], <<"i", "n">>)
                /\ Value(Value(operation, <<"p", "a", "r", "a", "m", "e", "t", "e", "r", "s">>).l[n], <<"i", "n">>) = Str(<<"b", "o", "d", "y">>)
             THEN SchemaRef(Value(operation, <<"p", "a", "r", "a", "m", "e", "t", "e", "r", "s">>).l[n])
             ELSE <<>>]
    ELSE <<>>

\* The names the pointers end in, each once, in the order they are met.
RECURSIVE SchemaNamesOf(_, _)
SchemaNamesOf(refs, names) ==
    IF refs = <<>> THEN names
    ELSE SchemaNamesOf(Tail(refs),
                       IF Head(refs) = <<>> \/ InList(LastPart(Split(Head(refs), "/")), names)
                       THEN names
                       ELSE Append(names, LastPart(Split(Head(refs), "/"))))

\* Lines 228-232: each schema is resolved by a call of its own; an
\* exception of one of the calls ends get_relevant_schemas.
ResolvedSchemas(names, resolutions) ==
    IF \E n \in 1..Len(names) : resolutions[n].raises THEN Raises
    ELSE Gives(Dict(names, [n \in 1..Len(names) |-> resolutions[n].v]))

\* Lines 200-232: the schemas named by the pointers, resolved.
SchemasNamed(doc, version, names) ==
    ResolvedSchemas(names,
        [n \in 1..Len(names) |->
            ResolveRefsRecursive(doc, version, NamedSchema(doc, version, names[n]), {})])

\* get_relevant_schemas
GetRelevantSchemas(doc, version, operation) ==
    SchemasNamed(doc, version,
                 SchemaNamesOf(BodyRefs(operation) \o ParameterRefs(operation), <<>>))

\* ------------------------------------------ inputs: documents with operations

TagList(tags) == List([n \in 1..Len(tags) |-> Str(tags[n])])

\* An operation without a body, with the given tags.
PlainOperation(tags) == Dict(<<<<"t", "a", "g", "s">>>>, <<TagList(tags)>>)

\* A Swagger 2.0 operation whose body parameter refers to the schema Order.
BodyParameterOperation ==
    Dict(<<<<"t", "a", "g", "s">>, <<"p", "a", "r", "a", "m", "e", "t", "e", "r", "s">>>>,
         <<TagList(<<<<"p", "e", "t", "s">>>>),
           List(<<Dict(<<<<"n", "a", "m", "e">>, <<"i", "n">>>>, <<Str(<<"q">>), Str(<<"q", "u", "e", "r", "y">>)>>),
                  Dict(<<<<"n", "a", "m", "e">>, <<"i", "n">>, <<"s", "c", "h", "e", "m", "a">>>>,
                       <<Str(<<"b">>), Str(<<"b", "o", "d", "y">>), RefTo(V1Prefix \o <<"O", "r", "d", "e", "r">>)>>)>>)>>)

\* An OpenAPI 3 operation whose request body refers to the schema Order.
RequestBodyOperation ==
    Dict(<<<<"t", "a", "g", "s">>, <<"r", "e", "q", "u", "e", "s", "t", "B", "o", "d", "y">>>>,
         <<TagList(<<<<"p", "e", "t", "s">>>>),
           Dict(<<<<"c", "o", "n", "t", "e", "n", "t">>>>,
                <<Dict(<<<<"a", "p", "p", "l", "i", "c", "a", "t", "i", "o", "n", "/", "j", "s", "o", "n">>>>,
                       <<Dict(<<<<"s", "c", "h", "e", "m", "a">>>>, <<RefTo(V2Prefix \o <<"O", "r", "d", "e", "r">>)>>)>>)>>)>>)

\* Two paths: /pets with POST written before GET and a key that is no
\* method; /users with DELETE, an empty PUT and a PATCH without tags.
PathsWith(post) ==
    Dict(<<<<"/", "p", "e", "t", "s">>, <<"/", "u", "s", "e", "r", "s">>>>,
         <<Dict(<<<<"p", "o", "s", "t">>, <<"g", "e", "t">>, <<"p", "a", "r", "a", "m", "e", "t", "e", "r", "s">>>>,
                <<post, PlainOperation(<<<<"p", "e", "t", "s">>>>), List(<<>>)>>),
           Dict(<<<<"d", "e", "l", "e", "t", "e">>, <<"p", "u", "t">>, <<"p", "a", "t", "c", "h">>>>,
                <<PlainOperation(<<<<"u", "s", "e", "r", "s">>, <<"a", "d", "m", "i", "n">>>>), EmptyDict,
                  Dict(<<<<"s", "u", "m", "m", "a", "r", "y">>>>, <<Str(<<"s">>)>>)>>)>>)

\* A path whose GET is null (a key without a value in YAML).
NullPaths == Dict(<<<<"/", "p", "e", "t", "s">>>>, <<Dict(<<<<"g", "e", "t">>>>, <<Null>>)>>)

WithPaths(doc, paths) == Dict(doc.keys \o <<<<"p", "a", "t", "h", "s">>>>, doc.vals \o <<paths>>)

GatherDocuments ==
    {WithPaths(V1Document, PathsWith(BodyParameterOperation)),
     WithPaths(V2Document, PathsWith(RequestBodyOperation)),
     WithPaths(V1Document, NullPaths),
     V1Document}

\* The filters of the configuration.
FilterSets ==
    [include_paths : {<<>>, <<<<"/", "p", "e", "t", "s">>>>, <<<<"/", "p">>, <<"/", "u">>>>, <<<<"/", "n", "o", "n", "e">>>>},
     exclude_paths : {<<>>, <<<<"/", "u", "s", "e", "r", "s">>>>},
     include_methods : {<<>>, <<<<"g", "e", "t">>>>, <<<<"P", "O", "S", "T">>, <<"D", "e", "l", "e", "t", "e">>, <<"P", "U", "T">>>>},
     include_tags : {<<>>, <<<<"p", "e", "t", "s">>>>, <<<<"a", "d", "m", "i", "n">>, <<"n", "o", "n", "e">>>>}]

\* ------------------------------------------ generate_all_test_cases called alone

NoPayload == [built |-> FALSE, raises |-> FALSE, v |-> EmptyDict]

\* Lines 203-228: the operations have been gathered, or an exception left
\* the function; with no operation the function returns [], else it makes
\* one task per operation.
Gather(gathered) ==
    /\ gather' = IF gathered.raises THEN "raised"
                 ELSE IF Len(gathered.operations) = 0 THEN "returned"
                 ELSE "tasks"
    /\ operations' = gathered.operations
    /\ relevant_schemas' = [i \in 1..Len(gathered.operations) |-> NoPayload]

\* The document with its paths replaced.
PathsReplaced(doc, resolution) ==
    IF resolution.raises THEN doc
    ELSE Dict(doc.keys, [n \in 1..Len(doc.keys) |->
                            IF doc.keys[n] = <<"p", "a", "t", "h", "s">> THEN resolution.v
                            ELSE doc.vals[n]])

\* GatherOperations with the references of the paths resolved in place:
\* self.spec holds the resolved operations afterwards.
GatherOperationsInPlace ==
    /\ gather = "start"
    /\ Gather(GatherPaths(spec, spec_version, filters, Gathered(<<>>), 1))
    /\ spec' = PathsReplaced(spec, ResolveRefsRecursive(spec, spec_version, GetPaths(spec), {}))
    /\ UNCHANGED <<spec_version, filters, requests, outside_gather>>

\* Lines 178-228 of generate_all_test_cases.
GatherOperations ==
    /\ gather = "start"
    /\ Gather(GatherPaths(spec, spec_version, filters, Gathered(<<>>), 1))
    /\ UNCHANGED <<spec, spec_version, filters, requests, outside_gather>>

\* The payload of the i-th operation has been built: its request goes out,
\* unless get_relevant_schemas raised.
Payload(i, relevant) ==
    /\ relevant_schemas' = [relevant_schemas EXCEPT
                               ![i] = [built |-> TRUE, raises |-> relevant.raises,
                                       v |-> relevant.v]]
    /\ requests' = IF relevant.raises THEN requests ELSE requests + 1

\* Lines 261-281 of _generate_test_cases_for_operation: the tasks start in
\* the order of the list, and each builds its payload and issues its first
\* request before the next one runs.
BuildPayload ==
    /\ gather = "tasks"
    /\ \E i \in 1..Len(operations) :
          /\ ~relevant_schemas[i].built
          /\ \A j \in 1..(i - 1) : relevant_schemas[j].built
          /\ Payload(i, GetRelevantSchemas(spec, spec_version, operations[i].operation))
    /\ UNCHANGED <<spec, spec_version, filters, operations, gather, outside_gather>>

InitGather ==
    /\ IdleRun
    /\ NoParseCall
    /\ NoKeyCall
    /\ NoLockCall
    /\ spec \in GatherDocuments
    /\ spec_version = DetectVersion(spec)
    /\ resolving = [kind |-> "idle", obj |-> EmptyDict]
    /\ frames = <<>>
    /\ visited_refs = {}
    /\ resolved = NoPointerCall
    /\ filters \in FilterSets
    /\ operations = <<>>
    /\ gather = "start"
    /\ relevant_schemas = <<>>
    /\ NoValidateCall
    /\ NoScanCall
    /\ requests = 0

NextGather ==
    \/ GatherOperations
    \/ BuildPayload

SpecGather == InitGather /\ [][NextGather]_vars

\* --------------------------------------------- _validate_cases called alone

\* Titles, types, paths, methods and step lists of the candidates.
CandidateTitles == {Str(<<"A">>), Str(<<>>), Absent}

CandidateTypes == {Str(Positive), Str(<<"S", "m", "o", "k", "e">>), Absent}

CandidatePaths == {Str(<<"/", "x">>), Absent}

CandidateMethods == {Str(<<"G", "E", "T">>), Absent}

UsableStep == RawStep(Str(<<"a">>), Str(<<"b">>))

\* {"action": "", "expected_result": "b"}
EmptyActionStep == RawStep(Str(<<>>), Str(<<"b">>))

\* {"expected_result": "b"}
NoActionStep == RawStep(Absent, Str(<<"b">>))

CandidateSteps ==
    {NoSteps, Steps(<<>>), Steps(<<UsableStep>>), Steps(<<EmptyActionStep>>),
     Steps(<<NoActionStep>>), Steps(<<EmptyActionStep, UsableStep>>),
     Steps(<<NonDictStep, UsableStep>>)}

\* The objects a response can hold where a record is expected.
CandidateCases ==
    {[Base EXCEPT !.title = title, !.test_type = test_type,
                  !.api_path = api_path, !.http_method = http_method,
                  !.test_steps = test_steps] :
        title \in CandidateTitles, test_type \in CandidateTypes,
        api_path \in CandidatePaths, http_method \in CandidateMethods,
        test_steps \in CandidateSteps}

\* The generator is new, and _validate_cases is given one object.
InitValidate ==
    /\ IdleRun
    /\ NoParseCall
    /\ NoKeyCall
    /\ NoLockCall
    /\ NoResolveCall
    /\ NoGatherCall
    /\ NoScanCall
    /\ raw_cases \in {<<case>> : case \in CandidateCases}
    /\ validated_cases = <<>>
    /\ validation = "given"

\* _validate_cases(cases), lines 669-692.
ValidateGiven ==
    /\ validation = "given"
    /\ validated_cases' = ValidateCases(raw_cases)
    /\ validation' = "validated"
    /\ UNCHANGED <<raw_cases, run_vars, outside_validate>>

\* _process_generated_cases of what _validate_cases returned, for the first
\* operation (line 293 after lines 658-664).
ProcessValidated ==
    /\ validation = "validated"
    /\ LET acc == ProcessCases([test_cases |-> test_cases, seen_keys |-> seen_keys,
                                valid_count |-> 0, raised |-> FALSE],
                               [i \in 1..Len(validated_cases) |->
                                   BuildCase(validated_cases[i], OpPath(1), OpMethod(1))],
                               config.enable_deduplication)
       IN /\ test_cases' = acc.test_cases
          /\ seen_keys' = acc.seen_keys
    /\ validation' = "processed"
    /\ UNCHANGED <<raw_cases, validated_cases, pc, rest_of_run, outside_validate>>

NextValidate ==
    \/ ValidateGiven
    \/ ProcessValidated

SpecValidate == InitValidate /\ [][NextValidate]_vars

\* --------------------------------------- the bracket-depth scans called alone

\* What stands between the quotes of a string: braces and brackets, alone,
\* after an escaped quote, after an escaped backslash, and after both.
StringBodies ==
    {<<"{">>, <<"}">>, <<"[", "]">>, <<"a">>,
     <<"\\", "\"", "{">>, <<"a", "\\", "\\">>,
     <<"\\", "\\", "\\", "\"", "]">>, <<"}", "\\", "\"", "[", "}">>}

Quoted(body) == <<"\"">> \o body \o <<"\"">>

\* An object with one string, an array of a string and an object, an array
\* cut inside a string, and prose with an escaped quote in front of an
\* object.
ScanTexts ==
    {<<"{">> \o Quoted(<<"k">>) \o <<":">> \o Quoted(body) \o <<"}">> :
        body \in StringBodies}
    \cup {<<"[">> \o Quoted(body) \o <<",", "{">> \o Quoted(other) \o <<":", "1", "}", "]">> :
            body \in StringBodies, other \in StringBodies}
    \cup {<<"[", "{">> \o Quoted(body) \o <<":", "\"">> \o body : body \in StringBodies}
    \cup {<<"x", "\\", "\"", "{">> \o Quoted(body) \o <<":", "1", "}">> : body \in StringBodies}

\* Lines 559-562 and 607-610: the local variables before the loop.
ScanStart(scan) ==
    IF scan = "last_complete"
    THEN [depth |-> 0, last_complete_pos |-> 0, in_string |-> FALSE,
          escape_next |-> FALSE]
    ELSE [depth |-> 0, start |-> 0, in_string |-> FALSE, escape_next |-> FALSE,
          results |-> <<>>]

InitScan ==
    /\ IdleRun
    /\ NoParseCall
    /\ NoKeyCall
    /\ NoLockCall
    /\ NoResolveCall
    /\ NoGatherCall
    /\ NoValidateCall
    /\ scanner \in {"last_complete", "objects"}
    /\ scan_text \in ScanTexts
    /\ scan_at = 1
    /\ scan_state = ScanStart(scanner)

\* One iteration of the for loop of _find_last_complete_object (564-589).
LastCompleteNext ==
    /\ scanner = "last_complete"
    /\ scan_at <= Len(scan_text)
    /\ scan_state' = LastCompleteStep(scan_state, scan_text[scan_at], scan_at)
    /\ scan_at' = scan_at + 1
    /\ UNCHANGED <<scanner, scan_text, outside_scan>>

\* One iteration of the for loop of _extract_complete_objects (612-643).
ObjectsNext ==
    /\ scanner = "objects"
    /\ scan_at <= Len(scan_text)
    /\ scan_state' = ExtractStep(scan_text, scan_state, scan_at)
    /\ scan_at' = scan_at + 1
    /\ UNCHANGED <<scanner, scan_text, outside_scan>>

NextScan ==
    \/ LastCompleteNext
    \/ ObjectsNext

SpecScan == InitScan /\ [][NextScan]_vars

\* ------------------------------------------------------------ properties

\* Positions of test_cases.
Records == 1..Len(test_cases)

\* C1: with deduplication enabled, no two records of test_cases have the
\* same unique key, in any reachable state of a run.
C1_NoTwoRecordsShareKey ==
    config.enable_deduplication =>
        \A i, j \in Records :
            i # j => GetUniqueKey(test_cases[i]) # GetUniqueKey(test_cases[j])

\* C1 witness: deduplication is on, an operation is in a retry, and the
\* result holds two records, one key each.
C1_Witness ==
    /\ config.enable_deduplication
    /\ Len(test_cases) >= 2
    /\ Cardinality(seen_keys) = Len(test_cases)
    /\ \E op \in Ops : attempt[op] >= 2

\* C2: every record of test_cases has at least one step, a non-empty
\* title, a non-empty api_path and a non-empty http_method.
C2_RecordsAreComplete ==
    \A i \in Records :
        /\ Len(test_cases[i].test_steps) >= 1
        /\ IsStr(test_cases[i].title) /\ test_cases[i].title.s # <<>>
        /\ IsStr(test_cases[i].api_path) /\ test_cases[i].api_path.s # <<>>
        /\ test_cases[i].http_method # <<>>

\* C2 witness: the result holds a record of the object scan, whose path
\* and method are those of its operation, next to a record of the schema.
C2_Witness ==
    /\ \E i \in Records :
          /\ test_cases[i].design_technique = <<"X">>
          /\ test_cases[i].http_method = OpMethod(2)
    /\ \E i \in Records : test_cases[i].design_technique = EP

\* C3 as stated: every record of test_cases has test_type Positive or
\* Negative.
C3_TestTypeIsPositiveOrNegative ==
    \A i \in Records : test_cases[i].test_type \in TestType

\* Candidates that differ in test_type only: missing, null, empty, a text
\* outside the enum, and the two members.
TypeCandidates ==
    {[Base EXCEPT !.test_type = v] :
        v \in {Absent, Null, Str(<<>>), Str(<<"S", "m", "o", "k", "e">>),
               Str(Positive), Str(Negative)}}

\* C3, amended: the test_type of a record of test_cases is never empty; a
\* candidate the schema accepts gets Positive or Negative, and a candidate
\* that goes through _salvage_case or from the object scan straight into
\* TestCase keeps its own test_type text, or gets "Unknown" when it is
\* missing, null or empty.
C3_TestTypeIsNeverEmpty ==
    /\ \A i \in Records : test_cases[i].test_type # <<>>
    /\ \A case \in TypeCandidates :
          LET own == IF Truthy(case.test_type) THEN case.test_type.s ELSE Unknown
          IN /\ TestCaseSchemaValid(case) =>
                    TestCase(ModelDump(case)).test_type \in TestType
             /\ SalvageCase(case) # <<>> =>
                    TestCase(SalvageCase(case)[1]).test_type = own
             /\ TestCase(case).test_type = own

\* C3 witness: a record with test_type "Unknown" is in test_cases.
C3_Witness == \E i \in Records : test_cases[i].test_type = Unknown

\* Operations that hold a slot of the semaphore.
Holders == {op \in Ops : pc[op] \in {"Woken", "Requesting", "Sleeping"}}

\* C4: with max_concurrent N > 0, at most N operations are in their
\* request/retry loop; an operation that waits has issued no request, and
\* waits only while no slot is free.
C4_AtMostNInLoop ==
    Limited =>
        /\ Cardinality(Holders) <= config.max_concurrent
        /\ Cardinality(Holders) = config.max_concurrent - sem_value
        /\ \A op \in Ops :
              pc[op] = "Queued" =>
                  attempt[op] = 0 /\ request[op] = "none" /\ sem_value = 0

\* C4 witness: one operation sleeps between attempts, holding the only
\* slot, while another waits.
C4_Witness ==
    /\ config.max_concurrent = 1
    /\ \E op, other \in Ops : pc[op] = "Sleeping" /\ pc[other] = "Queued"

\* The operation has exhausted its attempts or raised.
Failed(op) == pc[op] \in {"ExhaustedFailed", "Raised"}

\* test_cases keeps what it held.
KeepsRecords ==
    /\ Len(test_cases') >= Len(test_cases)
    /\ SubSeq(test_cases', 1, Len(test_cases)) = test_cases

\* C5: a step in which an operation exhausts its attempts or raises leaves
\* the records of test_cases in place, the other operations where they are
\* (a waiter may get the slot) and the run going; the run never aborts, and
\* once an operation has failed every operation still reaches a terminal
\* state and generate_all_test_cases returns.
C5_FailureIsolation ==
    /\ [](run \in {"gathering", "returned"})
    /\ [][\A op \in Ops :
            (pc'[op] \in {"ExhaustedFailed", "Raised"} /\ ~Failed(op)) =>
                /\ KeepsRecords
                /\ run' = run
                /\ \A other \in Ops \ {op} :
                      /\ \/ pc'[other] = pc[other]
                         \/ pc[other] = "Queued" /\ pc'[other] = "Woken"
                      /\ attempt'[other] = attempt[other]
                      /\ request'[other] = request[other]]_vars
    /\ (\E op \in Ops : Failed(op)) ~>
           (run = "returned" /\ \A op \in Ops : pc[op] \in Terminal)

\* C5 witness: the run returned with records, one operation having
\* exhausted its attempts and another having succeeded after it.
C5_Witness ==
    /\ run = "returned"
    /\ test_cases # <<>>
    /\ pc[1] = "ExhaustedFailed"
    /\ pc[2] = "Succeeded"

\* C6: the attempts of an operation never exceed config.max_retries; an
\* attempt that fails (service error, nothing recovered) with none left
\* ends the operation in ExhaustedFailed, and from there it makes no
\* further request.
C6_AttemptsAreBounded ==
    /\ [](\A op \in Ops :
            /\ attempt[op] <= config.max_retries
            /\ pc[op] = "Sleeping" => attempt[op] < config.max_retries
            /\ pc[op] = "ExhaustedFailed" => request[op] = "none")
    /\ [][\A op \in Ops :
            /\ (pc[op] = "Requesting" /\ last_result'[op] \in {"empty", "error"}) =>
                  pc'[op] = IF attempt[op] < config.max_retries
                            THEN "Sleeping" ELSE "ExhaustedFailed"
            /\ pc'[op] = "ExhaustedFailed" =>
                  \/ pc[op] = "ExhaustedFailed"
                  \/ pc[op] = "Requesting" /\ attempt[op] = config.max_retries
            /\ pc[op] = "ExhaustedFailed" =>
                  /\ pc'[op] = "ExhaustedFailed"
                  /\ request'[op] = "none"
                  /\ attempt'[op] = attempt[op]]_vars

\* C6 witness: with two attempts configured, an operation has failed both.
C6_Witness ==
    /\ config.max_retries = 2
    /\ \E op \in Ops : pc[op] = "ExhaustedFailed" /\ last_result[op] = "error"

\* The phase of the lifecycle a coroutine position belongs to.
Phase(p) ==
    CASE p \in {"NotStarted", "Queued", "Woken"} -> "Pending"
      [] p = "Sleeping" -> "Retrying"
      [] OTHER -> p

\* The transitions C7 lists.
ListedTransitions ==
    {<<"Pending", "Requesting">>, <<"Requesting", "Succeeded">>,
     <<"Requesting", "Retrying">>, <<"Retrying", "Requesting">>,
     <<"Requesting", "ExhaustedFailed">>}

\* C7 as stated: an operation's lifecycle takes only the listed
\* transitions.
C7_OnlyListedTransitions ==
    [][\A op \in Ops :
          Phase(pc'[op]) # Phase(pc[op]) =>
              <<Phase(pc[op]), Phase(pc'[op])>> \in ListedTransitions]_vars

\* C7, amended: an operation's lifecycle takes only the listed transitions
\* and Pending -> Raised (building the payload raised before any request);
\* Succeeded, ExhaustedFailed and Raised are terminal and a request is
\* outstanding only in Requesting; an attempt begins only from Pending or
\* Retrying, one at a time.
C7_LifecycleWithRaised ==
    /\ [](\A op \in Ops : request[op] # "none" <=> pc[op] = "Requesting")
    /\ [][\A op \in Ops :
            /\ Phase(pc'[op]) # Phase(pc[op]) =>
                  <<Phase(pc[op]), Phase(pc'[op])>>
                      \in ListedTransitions \cup {<<"Pending", "Raised">>}
            /\ pc[op] \in Terminal =>
                  pc'[op] = pc[op] /\ request'[op] = "none"
            /\ attempt'[op] # attempt[op] =>
                  \/ /\ attempt'[op] = attempt[op] + 1
                     /\ Phase(pc[op]) \in {"Pending", "Retrying"}
                     /\ pc'[op] = "Requesting"
                  \/ attempt'[op] = 0 /\ pc'[op] \in Terminal]_vars

\* C7 witness: one operation raised before its first request, another
\* succeeded on its second attempt.
C7_Witness ==
    /\ run = "returned"
    /\ \E op, other \in Ops :
          /\ pc[op] = "Raised"
          /\ pc[other] = "Succeeded"
    /\ faults = 2
    /\ config.max_retries = 2

\* C8 as stated, at the end of the run: without a semaphore and with a
\* service that answers every request with at least one recoverable
\* record, every operation has succeeded when the run returns.
C8_AllSucceedWhenReliable ==
    run = "returned" => \A op \in Ops : pc[op] = "Succeeded"

\* The operation a record of the object scan was generated for.
OperationOf(test_case) ==
    CHOOSE op \in Ops :
        test_case.http_method = OpMethod(op) /\ test_case.api_path.s = OpPath(op)

\* Records of test_cases that carry the path and method of their operation.
Attributed == {i \in Records : test_cases[i].design_technique = <<"X">>}

C10_EmptyResponseFailsAttempt ==
    /\ [](\A op \in Ops :
            /\ pc[op] = "Succeeded" => last_result[op] = "cases"
            /\ pc[op] = "Sleeping" => ENABLED WakeFromSleep(op))
    /\ [][\A op \in Ops :
            (pc[op] = "Requesting" /\ last_result'[op] = "empty") =>
                /\ test_cases' = test_cases
                /\ seen_keys' = seen_keys
                /\ pc'[op] = IF attempt[op] < config.max_retries
                             THEN "Sleeping" ELSE "ExhaustedFailed"]_vars

\* C10 witness: an operation sleeps before its retry after a response
\* from which nothing was recovered, test_cases being as it was.
C10_Witness ==
    /\ \E op \in Ops : pc[op] = "Sleeping" /\ last_result[op] = "empty"
    /\ test_cases # <<>>

\* C11: an operation that sleeps after its failed attempt number k was
\* given retry_delay * k seconds, and only an operation with attempts left
\* sleeps: the step that fails the last attempt starts no sleep.
C11_LinearBackoff ==
    /\ [](\A op \in Ops :
            IF pc[op] = "Sleeping"
            THEN /\ attempt[op] < config.max_retries
                 /\ sleep_for[op] = config.retry_delay * attempt[op]
            ELSE sleep_for[op] = 0)
    /\ [][\A op \in Ops :
            (pc[op] = "Requesting" /\ last_result'[op] \in {"empty", "error"}) =>
                IF attempt[op] < config.max_retries
                THEN /\ pc'[op] = "Sleeping"
                     /\ sleep_for'[op] = config.retry_delay * attempt[op]
                ELSE /\ pc'[op] = "ExhaustedFailed"
                     /\ sleep_for'[op] = 0]_vars

\* C11 witness: an operation sleeps after its second failed attempt, for
\* twice the retry delay.
C11_Witness ==
    \E op \in Ops :
        /\ pc[op] = "Sleeping"
        /\ attempt[op] = 2
        /\ sleep_for[op] = 2 * DefaultRetryDelay

\* C12: the step in which a strict request fails as unsupported clears
\* use_structured_output; once cleared it stays cleared, and a strict
\* request starts only while it is set, so none starts after the failure.
C12_PermanentFallback ==
    [][/\ \A op \in Ops :
            /\ (last_result'[op] = "unsupported" /\ last_result[op] # "unsupported")
                  => ~use_structured_output'
            /\ (request'[op] = "strict" /\ request[op] # "strict")
                  => use_structured_output /\ use_structured_output'
       /\ ~use_structured_output => ~use_structured_output']_vars

\* C12 witness: a strict request of one operation failed as unsupported,
\* and another operation's second attempt, begun since, is in JSON mode.
C12_Witness ==
    /\ ~use_structured_output
    /\ \E op, other \in Ops :
          /\ last_result[op] = "unsupported"
          /\ pc[other] = "Requesting"
          /\ attempt[other] = 2
          /\ last_result[other] = "none"
          /\ request[other] = JsonMode

\* C13: a strategy ends the pipeline only with a non-empty list: the
\* function never returns at one of the first four strategies with an
\* empty list, and it returns an empty list only for a text from which
\* none of the five strategies recovers a record.
C13_EndsOnlyWhenNonEmpty ==
    (returned /\ response_text # <<>>) =>
        /\ strategy_no \in 1..4 => recovered # <<>>
        /\ recovered = <<>> =>
              \A n \in 1..5 : StrategyOf[response_text][n].cases = <<>>

\* The function has reached a strategy only after every earlier strategy
\* found nothing to return.
EarlierStrategiesFailed ==
    \A m \in 1..(strategy_no - 1) : ~StrategyOf[response_text][m].returns

\* A response that is valid JSON yields the normalization of its parse.
ValidJsonYieldsItsParse ==
    (returned /\ Documents[response_text] # <<>>) =>
        /\ strategy_no = 1
        /\ recovered = NormalizeResponse(Documents[response_text][1])

InsideToken(cut) ==
    Count(SubSeq(cut.record, 1, cut.at), "\"") % 2 = 1

\* C15: for an array of complete records followed by one record cut off in
\* the middle of a token, the recovery pipeline returns exactly the complete
\* records, in their order, and nothing derived from the cut-off record.
C15_CutInsideTokenKeepsComplete ==
    (/\ returned
     /\ response_text \in CutTexts
     /\ InsideToken(CutOf[response_text])) =>
        recovered = Complete(CutOf[response_text].n)

\* Two complete records, then a record whose steps are complete and whose
\* last string is cut: the object scan has returned the two.
C15_Witness ==
    /\ returned
    /\ strategy_no = 5
    /\ response_text \in CutTexts
    /\ LET cut == CutOf[response_text]
       IN /\ cut.n = 2
          /\ cut.record = DumpsStepsFirst(Later)
          /\ cut.at = Len(cut.record) - 2
          /\ InsideToken(cut)
    /\ recovered = <<Good, GoodAgain>>

\* C16: the balanced repair applied to an array cut in the middle of a
\* record returns only the records that were complete before the cut, and
\* no record built from the cut part with required fields missing.
C16_RepairKeepsOnlyComplete ==
    (/\ returned
     /\ strategy_no = 4
     /\ response_text \in CutTexts) =>
        recovered = ValidateCases(Complete(CutOf[response_text].n))

\* The braces of a text that lie outside its strings (the texts checked
\* hold no escaped quote).
BracesOf(s) ==
    {i \in 1..Len(s) :
        /\ s[i] \in {"{", "}"}
        /\ Count(SubSeq(s, 1, i - 1), "\"") % 2 = 0}

\* Opening braces minus closing braces among the braces from a to b.
Balance(s, a, b) ==
    Cardinality({i \in BracesOf(s) : a <= i /\ i <= b /\ s[i] = "{"})
        - Cardinality({i \in BracesOf(s) : a <= i /\ i <= b /\ s[i] = "}"})

\* The brace that closes the one opened at a, 0 when it is never closed.
ClosingOf(s, a) ==
    LET ends == {b \in BracesOf(s) : b > a /\ Balance(s, a, b) = 0}
    IN IF ends = {} THEN 0 ELSE CHOOSE b \in ends : \A c \in ends : b <= c

\* Where the top-level-complete objects of a text start: at an opening
\* brace that is closed and lies inside no other closed object.
TopLevelStarts(s) ==
    {a \in BracesOf(s) :
        /\ s[a] = "{"
        /\ ClosingOf(s, a) # 0
        /\ \A o \in BracesOf(s) :
              (s[o] = "{" /\ o < a) => ClosingOf(s, o) < a}

\* The starts in from, in text order.
RECURSIVE InOrder(_)
InOrder(from) ==
    IF from = {} THEN <<>>
    ELSE LET a == CHOOSE x \in from : \A y \in from : x <= y
         IN <<a>> \o InOrder(from \ {a})

\* The test-case-like objects among the top-level-complete ones, in text
\* order.
TopLevelObjects(s) ==
    LET starts == InOrder(TopLevelStarts(s))
        parsed == [n \in 1..Len(starts) |->
                      JsonLoads(SubSeq(s, starts[n], ClosingOf(s, starts[n])))]
    IN SelectSeq([n \in 1..Len(starts) |->
                     IF parsed[n] = <<>> THEN AsCase(NotRead.v)
                     ELSE AsCase(parsed[n][1])],
                 IsTestCaseLike)

TopLevelObjectsOf == [t \in ObjectTexts |-> TopLevelObjects(t)]

\* C17: for any raw text, the object scan returns, in text order, exactly
\* the objects parsed from every top-level-complete {...} substring whose
\* keys include at least 3 of title, test_steps, test_type, api_path and
\* http_method.
C17_SalvageReturnsTopLevelObjects ==
    (/\ returned
     /\ strategy_no = 5
     /\ response_text \in ObjectTexts) =>
        recovered = TopLevelObjectsOf[response_text]

\* The first step's action and expected result as get_unique_key reads
\* them: empty texts when there is no step.
FirstStepText(test_case, field) ==
    IF test_case.test_steps = <<>> THEN <<>> ELSE test_case.test_steps[1][field].s

\* Both keys have been computed.
KeysComputed == first_key # <<>> /\ second_key # <<>>

\* Two records that agree on the fields the key is made of give the same
\* key, whatever their description, preconditions, priority or later steps.
SameFieldsSameKey ==
    (/\ KeysComputed
     /\ first_case.api_path = second_case.api_path
     /\ first_case.http_method = second_case.http_method
     /\ first_case.test_type = second_case.test_type
     /\ first_case.design_technique = second_case.design_technique
     /\ Prefix(first_case.title.s, KeyPrefixLen) = Prefix(second_case.title.s, KeyPrefixLen)
     /\ \A field \in {"action", "expected_result"} :
           Prefix(FirstStepText(first_case, field), KeyPrefixLen)
               = Prefix(FirstStepText(second_case, field), KeyPrefixLen)) =>
        first_key = second_key

\* None of the texts a record puts in its key holds the separator.
NoBar(test_case) ==
    \A part \in {test_case.api_path.s, test_case.http_method, test_case.test_type,
                  test_case.design_technique, test_case.title.s,
                  FirstStepText(test_case, "action"),
                  FirstStepText(test_case, "expected_result")} :
        \A i \in 1..Len(part) : part[i] # "|"

ValidOf(built) ==
    LET valid == SelectSeq(built, LAMBDA b : b.kind = "valid")
    IN [i \in 1..Len(valid) |-> valid[i].test_case]

\* C19: with deduplication disabled, a step that processes a list of
\* candidates appends every one that passes validation to test_cases, in
\* order, those whose key a record already has included, and seen_keys is
\* never modified.
C19_NoDedupAdmitsEveryValid ==
    /\ [](~config.enable_deduplication => seen_keys = {})
    /\ [][~config.enable_deduplication =>
            \A op \in Ops :
                (pc[op] = "Requesting" /\ last_result'[op] = "cases") =>
                    \E cases_data \in CaseLists :
                        /\ cases_data # <<>>
                        /\ \A i \in 1..Len(cases_data) :
                              Built[cases_data][op][i].kind # "raised"
                        /\ test_cases' = test_cases \o ValidOf(Built[cases_data][op])]_vars

\* C19 witness: deduplication is off, the result holds the same record
\* twice, and the key set is empty.
C19_Witness ==
    /\ ~config.enable_deduplication
    /\ seen_keys = {}
    /\ \E i, j \in Records :
          /\ i < j
          /\ test_cases[i] = test_cases[j]
          /\ GetUniqueKey(test_cases[i]) = GetUniqueKey(test_cases[j])

\* The operations inside the with block of _process_generated_cases.
InsideLock == {op \in Ops : pc[op] \in {"Locked", "Inserting"}}

\* C20: at most one operation at a time is inside the admission critical
\* section, and between an operation's test of seen_keys and its insertion
\* no other operation changes seen_keys or test_cases: the key it found
\* new is still new when it is inserted.
C20_OneAdmissionAtATime ==
    /\ [](/\ Cardinality(InsideLock) <= 1
          /\ InsideLock # {} => lock.locked)
    /\ [][\A op \in Ops :
            pc[op] = "Inserting" =>
                IF pc'[op] = "Inserting"
                THEN seen_keys' = seen_keys /\ test_cases' = test_cases
                ELSE key_is_new[op] = "new" =>
                        /\ CurrentCase(op).unique_key \notin seen_keys
                        /\ seen_keys' = seen_keys \cup {CurrentCase(op).unique_key}
                        /\ test_cases' = Append(test_cases, CurrentCase(op).test_case)]_vars

\* C20 witness: an operation has found its key new and is about to insert
\* it while another one, which brings a record with the same key, waits
\* for the lock.
C20_Witness ==
    \E op, other \in Ops :
        /\ pc[op] = "Inserting" /\ key_is_new[op] = "new"
        /\ pc[other] = "LockWait"
        /\ lock.locked
        /\ \E i \in 1..Len(processing[other]) :
              /\ processing[other][i].kind = "valid"
              /\ processing[other][i].unique_key = CurrentCase(op).unique_key

\* C21: test_cases only grows at its end: every step leaves it as it was
\* or appends records after the ones it held, also a step in which an
\* attempt fails or an operation raises; no record is removed, replaced or
\* moved.
C21_AppendOnly ==
    [][/\ KeepsRecords
       /\ \A i \in Records : test_cases'[i] = test_cases[i]]_vars

\* C21 witness: records are held, one operation succeeded, and another
\* operation's latest attempt raised while its cases were processed.
C21_Witness ==
    /\ Len(test_cases) >= 2
    /\ \E op \in Ops : pc[op] = "Succeeded"
    /\ \E op \in Ops : last_result[op] = "error" /\ pc[op] # "Succeeded"

\* The call under way is on a $ref node that holds a pointer.
AtPointer ==
    /\ resolving.kind = "call"
    /\ resolving.obj.k = "obj"
    /\ Has(resolving.obj, RefKey)
    /\ Value(resolving.obj, RefKey).k = "str"

\* C22: resolve_refs_recursive comes to an end on every document, also
\* when schemas refer to themselves or to each other in a cycle of any
\* length, and a $ref node met while its own pointer is being expanded
\* is replaced by the sentinel that carries the pointer, without a
\* further expansion.
C22_CyclesEndInSentinel ==
    /\ <>(resolving.kind \in {"done", "raised"})
    /\ [][(AtPointer /\ Value(resolving.obj, RefKey).s \in ActivePath) =>
              /\ resolving' = Return(Sentinel(Value(resolving.obj, RefKey).s))
              /\ frames' = frames]_vars

\* C22 witness: the sentinel has just been returned for a pointer whose
\* expansion went through a cycle of MaxCycle schemas.
C22_Witness ==
    /\ resolving.kind = "return"
    /\ Cardinality(ActivePath) = MaxCycle
    /\ \E ref_path \in ActivePath : resolving.obj = Sentinel(ref_path)

\* C23: the sentinel is given for a $ref node only when its pointer is
\* being expanded at that moment; a pointer met again outside its own
\* expansion is resolved again.
C23_SentinelOnlyOnActivePath ==
    [][(/\ AtPointer
        /\ resolving' = Return(Sentinel(Value(resolving.obj, RefKey).s)))
           => Value(resolving.obj, RefKey).s \in ActivePath]_vars

\* What the lookup of a pointer is to give: the part of the document the
\* pointer leads to (for '#/definitions/X' and '#/components/schemas/X'
\* the schema X of that section), {} for a pointer into another file.
PointerTarget(doc, ref_path, path_parts) ==
    IF ~StartsWith(ref_path, 1, <<"#", "/">>) THEN EmptyDict
    ELSE Traverse(doc, path_parts)

\* C30: resolve_ref gives, for '#/definitions/X' in a Swagger 2.0 document
\* and for '#/components/schemas/X' in an OpenAPI 3 document, the schema X
\* of that section; for every other pointer that starts with '#/' what the
\* walk along its parts gives; for every other pointer {}.
C30_PointerLookupByDialect ==
    resolved.ref_path # <<>> =>
        /\ ~resolved.result.raises
        /\ resolved.result.v =
               PointerTarget(spec, resolved.ref_path,
                             Split(SubSeq(resolved.ref_path, 3, Len(resolved.ref_path)), "/"))

\* The operation as the document holds it, before its references are
\* resolved.
RawOperation(path, method) == Value(Value(GetPaths(spec), path), LowerOf(method))

\* The names of the schemas the body of the operation refers to.
BodySchemaNames(operation) ==
    SchemaNamesOf(BodyRefs(operation) \o ParameterRefs(operation), <<>>)

\* C24: once the payload of a gathered operation is built, its
\* relevant_schemas holds every schema that the operation's request body
\* content or body parameter refers to in the document, under the schema's
\* name, with the references inside the schema resolved.
C24_BodySchemaIsRelevant ==
    \A i \in 1..Len(relevant_schemas) :
        (relevant_schemas[i].built /\ ~relevant_schemas[i].raises) =>
            \A n \in 1..Len(BodySchemaNames(RawOperation(operations[i].path,
                                                         operations[i].method))) :
                LET schema_name ==
                        BodySchemaNames(RawOperation(operations[i].path,
                                                     operations[i].method))[n]
                IN /\ Has(relevant_schemas[i].v, schema_name)
                   /\ Value(relevant_schemas[i].v, schema_name) =
                          ResolveRefsRecursive(spec, spec_version,
                              NamedSchema(spec, spec_version, schema_name), {}).v

\* A path passes when an include prefix fits it, or there is none, and no
\* exclude prefix fits it.
PathPasses(path) ==
    /\ \/ filters.include_paths = <<>>
       \/ \E n \in 1..Len(filters.include_paths) :
             StartsWith(path, 1, filters.include_paths[n])
    /\ \A n \in 1..Len(filters.exclude_paths) :
          ~StartsWith(path, 1, filters.exclude_paths[n])

\* A method passes when it is included, in any case of letters, or
\* nothing is.
MethodPasses(method) ==
    \/ filters.include_methods = <<>>
    \/ \E n \in 1..Len(filters.include_methods) :
          UpperOf(filters.include_methods[n]) = method

\* The tags of an operation pass when one of them is included, or nothing
\* is.
TagsPass(operation) ==
    \/ filters.include_tags = <<>>
    \/ /\ Has(operation, <<"t", "a", "g", "s">>)
       /\ \E n \in 1..Len(Value(operation, <<"t", "a", "g", "s">>).l) :
             InList(Value(operation, <<"t", "a", "g", "s">>).l[n].s, filters.include_tags)

\* A path with one of the five methods.
OperationKey(path, method) == [path |-> path, method |-> method]

\* Every path with every method: path by path in the order of the
\* document, and for each path GET, POST, PUT, PATCH, DELETE.
AllOperationKeys ==
    [n \in 1..(Len(GetPaths(spec).keys) * Len(HttpMethods)) |->
        OperationKey(GetPaths(spec).keys[((n - 1) \div Len(HttpMethods)) + 1],
                     HttpMethods[((n - 1) % Len(HttpMethods)) + 1])]

\* The path and the method pass their filters, the path holds the method,
\* and the operation's tags pass.
Survives(key) ==
    /\ PathPasses(key.path)
    /\ MethodPasses(key.method)
    /\ Has(Value(GetPaths(spec), key.path), LowerOf(key.method))
    /\ TagsPass(RawOperation(key.path, key.method))

\* The operations gathered, by path and method.
GatheredKeys ==
    [i \in 1..Len(operations) |-> OperationKey(operations[i].path, operations[i].method)]

\* C28: when the loops of generate_all_test_cases end, operations holds
\* exactly the (path, method) pairs whose path and method pass their
\* filters, whose method the path holds and whose tags pass, path by path
\* in the order of the document and for each path in the order GET, POST,
\* PUT, PATCH, DELETE.
C28_OperationsAreTheSurvivors ==
    gather \in {"tasks", "returned"} => GatheredKeys = SelectSeq(AllOperationKeys, Survives)

\* C29: when no (path, method) pair survives the filters,
\* generate_all_test_cases returns with an empty list and no task is made:
\* no request is issued, then or later.
C29_NothingToDoNoRequest ==
    /\ (gather \notin {"start", "raised"} /\ SelectSeq(AllOperationKeys, Survives) = <<>>) =>
           /\ gather = "returned"
           /\ operations = <<>>
    /\ gather = "returned" => requests = 0 /\ relevant_schemas = <<>>

\* C29 witness: the document has operations, none survives the filters, and
\* the function has returned.
C29_Witness ==
    /\ gather = "returned"
    /\ GetPaths(spec).keys # <<>>
    /\ SelectSeq(AllOperationKeys, Survives) = <<>>
    /\ requests = 0

\* A step _salvage_case keeps: a dict with a non-empty action.
HasUsableStep(case) ==
    /\ case.test_steps.k = "list"
    /\ \E i \in 1..Len(case.test_steps.l) :
          /\ case.test_steps.l[i].k = "dict"
          /\ Truthy(case.test_steps.l[i].action)

\* C25: a candidate that fails strict validation is salvaged, not dropped,
\* whenever it has a non-empty title and a step list with at least one step
\* that has a non-empty action, whatever other keys it has or lacks; it is
\* dropped only when the title is missing or no step is usable.
C25_SalvagedWhateverOtherKeys ==
    validation # "given" =>
        \A i \in 1..Len(raw_cases) :
            ~TestCaseSchemaValid(raw_cases[i]) =>
                (validated_cases # <<>>
                    <=> (Truthy(raw_cases[i].title) /\ HasUsableStep(raw_cases[i])))

\* C26: every candidate recovered by any of the five strategies passes
\* through _validate_cases before it can be admitted: each record
\* _parse_llm_response returns for a text with whole objects outside any
\* array is what _validate_cases makes of one of these objects.
C26_RecoveredWereValidated ==
    (returned /\ response_text \in ObjectTexts) =>
        \A i \in 1..Len(recovered) :
            \E n \in 1..Len(TopLevelObjectsOf[response_text]) :
                ValidateCase(TopLevelObjectsOf[response_text][n]) = <<recovered[i]>>

\* Positions of the steps of record i of test_cases.
StepsOfRecord(i) == 1..Len(test_cases[i].test_steps)

\* C27: every step of every record in test_cases has a non-empty action: a
\* candidate with a step whose action is empty or missing is not accepted
\* by strict validation, and salvage keeps only steps with a non-empty
\* action.
C27_EveryStepHasAnAction ==
    /\ \A i \in Records : \A j \in StepsOfRecord(i) :
          Truthy(test_cases[i].test_steps[j].action)
    /\ validation # "given" =>
          \A i \in 1..Len(validated_cases) :
              \A j \in 1..Len(validated_cases[i].test_steps.l) :
                  Truthy(validated_cases[i].test_steps.l[j].action)

\* No dict of the structure holds the key $ref.
RECURSIVE RefFree(_)
RefFree(obj) ==
    IF obj.k = "obj"
    THEN /\ ~Has(obj, RefKey)
         /\ \A n \in 1..Len(obj.vals) : RefFree(obj.vals[n])
    ELSE IF obj.k = "list"
    THEN \A n \in 1..Len(obj.l) : RefFree(obj.l[n])
    ELSE TRUE

\* The structure the innermost waiting call went into: the target of its
\* pointer.
TargetOfHead == ResolveRef(spec, spec_version, Head(frames).ref_path).v

\* A call on the target of a pointer has returned to the call on the $ref
\* node, and the target holds no reference.
ReturnedFromRefFree ==
    /\ resolving.kind = "return"
    /\ frames # <<>>
    /\ Head(frames).kind = "ref"
    /\ RefFree(TargetOfHead)

\* C31: for every structure that contains no reference node, deep
\* resolution returns a structure equal to its input.
C31_RefFreeIsReturnedEqual ==
    ReturnedFromRefFree => resolving.obj = TargetOfHead

\* The structure returned holds a list and a dict inside.
C31_Witness ==
    /\ ReturnedFromRefFree
    /\ resolving.obj = TargetOfHead
    /\ resolving.obj.k = "obj"
    /\ \E n \in 1..Len(resolving.obj.vals) :
          resolving.obj.vals[n].k = "list" /\ resolving.obj.vals[n].l # <<>>

Unconstrained == {"stream", "plain"}

\* The step in which the strict request of op fails as truncated: a JSON
\* mode request takes its place and nothing says "unsupported".
TruncatedStep(op) ==
    /\ request[op] = "strict"
    /\ request'[op] \in Unconstrained
    /\ last_result'[op] # "unsupported"

\* The fallback is for this request: the flag and the attempt stay, and
\* an attempt that begins while the flag is set begins with a strict
\* request.
TransientStep(op) ==
    /\ TruncatedStep(op) =>
          /\ use_structured_output' = use_structured_output
          /\ attempt'[op] = attempt[op]
          /\ pc'[op] = "Requesting"
          /\ request'[op] = JsonMode
    /\ (attempt'[op] # attempt[op] /\ pc'[op] = "Requesting" /\ use_structured_output')
          => request'[op] = "strict"

\* C33: when a strict request fails because the response was truncated,
\* the same attempt issues exactly one unconstrained request in its place
\* and use_structured_output is left unchanged, so later requests still
\* use strict mode first. (While the flag is set, an attempt that holds a
\* JSON mode request began strict and fell back as truncated.)
C33_ExactlyOneUnconstrainedRequest ==
    [][\A op \in Ops :
          /\ TransientStep(op)
          /\ (use_structured_output /\ request[op] \in Unconstrained)
                => request'[op] \notin Unconstrained \ {request[op]}]_vars

\* C33 as the code has it: the attempt makes one JSON mode call in place of
\* the truncated strict request, which is one streaming request, followed
\* by one non-streaming request if the stream breaks before any content,
\* or one non-streaming request when streaming is off; the flag is left
\* unchanged and later attempts begin strict.
C33_OneJsonModeCall ==
    [][\A op \in Ops :
          /\ TransientStep(op)
          /\ (/\ use_structured_output
              /\ request[op] \in Unconstrained
              /\ request'[op] \in (Unconstrained \cup {"strict"}) \ {request[op]}
              /\ attempt'[op] = attempt[op])
                => (request[op] = "stream" /\ request'[op] = "plain")]_vars

\* The JSON mode request that took the place of a truncated strict request
\* is under way in a second attempt, and the flag is still set.
C33_Witness ==
    /\ use_structured_output
    /\ \E op \in Ops :
          /\ pc[op] = "Requesting"
          /\ request[op] \in Unconstrained
          /\ attempt[op] = 2

\* The number of backslashes that end at position j of s, one after the
\* other.
RECURSIVE BackslashRun(_, _)
BackslashRun(s, j) ==
    IF j >= 1 /\ s[j] = "\\" THEN 1 + BackslashRun(s, j - 1) ELSE 0

\* The character at j comes after an odd number of backslashes.
Escaped(s, j) == BackslashRun(s, j - 1) % 2 = 1

\* A quote that opens or closes a string.
UnescapedQuote(s, j) == s[j] = "\"" /\ ~Escaped(s, j)

\* The character at i lies inside a double-quoted string: an odd number of
\* quotes that are not escaped come before it, and it is not the closing
\* one.
InsideString(s, i) ==
    /\ ~UnescapedQuote(s, i)
    /\ Cardinality({j \in 1..(i - 1) : UnescapedQuote(s, j)}) % 2 = 1

Brackets == {"{", "}", "[", "]"}

\* C34: in both bracket-depth scans, a brace or bracket that lies inside a
\* double-quoted string, also one that holds escaped quotes or escaped
\* backslashes, never changes the depth counter.
C34_BracketsInStringsKeepDepth ==
    [][(/\ scan_at' = scan_at + 1
        /\ scan_text[scan_at] \in Brackets
        /\ InsideString(scan_text, scan_at))
          => scan_state'.depth = scan_state.depth]_vars

\* The scan has passed a brace or bracket inside a string, after an escaped
\* quote of the same string, and has counted a brace outside.
C34_Witness ==
    /\ scan_at > 2
    /\ scan_text[scan_at - 1] \in Brackets
    /\ InsideString(scan_text, scan_at - 1)
    /\ scan_text[scan_at - 2] = "\""
    /\ Escaped(scan_text, scan_at - 2)
    /\ scan_state.depth > 0

\* The step is one of op's coroutine at a request: the response or
\* exception it awaited is there.
ResponseStep(op) ==
    /\ pc[op] = "Requesting"
    /\ \/ pc'[op] # "Requesting"
       \/ request'[op] # request[op]
       \/ attempt'[op] # attempt[op]

\* C35: for each operation, records are admitted to test_cases from at
\* most one attempt: an attempt that has admitted at least one record is
\* never followed by another request for the same operation, also when an
\* exception is raised while the remaining records of that response are
\* processed; the step that admits a record ends the operation.
C35_AdmittingAttemptIsTheLast ==
    [][\A op \in Ops :
          (ResponseStep(op) /\ Len(test_cases') > Len(test_cases))
              => pc'[op] \in Terminal]_vars

\* The candidate with the path and the method of the operation where it
\* has no usable one of its own.
WithOperationKey(case_data, path, method) ==
    [case_data EXCEPT
        !.api_path = IF Truthy(case_data.api_path) THEN @ ELSE Str(path),
        !.http_method = IF Truthy(case_data.http_method) THEN @ ELSE Str(method)]

\* What a new generator holds after one candidate that has been given the
\* operation's path and method is validated for admission.
AdmittedWithOperationKey(case_data, path, method) ==
    IF ValidateTestCase(TestCase(WithOperationKey(case_data, path, method)))
    THEN <<TestCase(WithOperationKey(case_data, path, method))>>
    ELSE <<>>

\* C36: before a candidate is validated for admission its api_path and
\* http_method are present: a candidate that arrives without a usable
\* api_path or http_method (key absent, null or empty, also a candidate
\* made by salvage) receives the path and method of the operation it was
\* generated for.
C36_OperationKeyIsFilledIn ==
    (validation = "processed" /\ validated_cases # <<>>) =>
        test_cases = AdmittedWithOperationKey(validated_cases[1], OpPath(1), OpMethod(1))

\* C37: with a concurrency ceiling N > 0 and a service that answers every
\* request, every queued operation is eventually admitted through the
\* gate: a slot is released whenever an admitted operation ends, whether
\* it Succeeded, ended ExhaustedFailed or raised, so the run never
\* deadlocks or leaks slots: once every operation has ended, all N slots
\* are free.
C37_QueuedAreAdmitted ==
    /\ \A op \in Ops : (pc[op] = "Queued") ~> (pc[op] \notin {"Queued", "Woken"})
    /\ []((Limited /\ \A op \in Ops : pc[op] \in Terminal)
             => (sem_value = config.max_concurrent /\ sem_waiters = <<>>))

\* An operation that was queued behind one that ended ExhaustedFailed or
\* raised holds the slot and is at its request.
C37_Witness ==
    /\ config.max_concurrent = 1
    /\ \E op, other \in Ops :
          /\ pc[other] \in {"ExhaustedFailed", "Raised"}
          /\ attempt[other] = 0 /\ last_result[other] \in {"empty", "error"}
          /\ pc[op] = "Requesting"

\* The records of test_cases whose unique key is the given one.
RecordsWithKey(key) == {i \in Records : GetUniqueKey(test_cases[i]) = key}

\* C38: with deduplication enabled, in every reachable state seen_keys is
\* exactly the set of the unique keys of the records in test_cases: a key
\* is in seen_keys if and only if one record with that key is in
\* test_cases.
C38_SeenKeysAreTheRecordKeys ==
    config.enable_deduplication =>
        /\ \A key \in seen_keys : Cardinality(RecordsWithKey(key)) = 1
        /\ \A i \in Records : GetUniqueKey(test_cases[i]) \in seen_keys

\* C38 witness: deduplication is on, two keys are held, one operation has
\* succeeded and the latest attempt of another raised while its cases
\* were processed.
C38_Witness ==
    /\ config.enable_deduplication
    /\ Cardinality(seen_keys) >= 2
    /\ \E op, other \in Ops :
          /\ pc[op] = "Succeeded"
          /\ last_result[other] = "error" /\ pc[other] # "Succeeded"

\* key_parts of get_unique_key: the seven components of the key, the four
\* texts taken whole and the first KeyPrefixLen characters of the title
\* and of the first step's action and expected result, without the blanks
\* around them.
KeyComponents(test_case) ==
    <<test_case.api_path.s,
      test_case.http_method,
      test_case.test_type,
      test_case.design_technique,
      Strip(Prefix(test_case.title.s, KeyPrefixLen)),
      Strip(Prefix(FirstStepText(test_case, "action"), KeyPrefixLen)),
      Strip(Prefix(FirstStepText(test_case, "expected_result"), KeyPrefixLen))>>

\* C39: get_unique_key is injective on its components: two records whose
\* tuples (api_path, http_method, test_type, design_technique, title
\* prefix, first-step action prefix, first-step expected-result prefix)
\* differ in at least one component have different keys.
C39_KeyIsInjective ==
    (KeysComputed /\ KeyComponents(first_case) # KeyComponents(second_case)) =>
        first_key # second_key

\* C40: resolve_ref never raises: for every pointer string, also an
\* intra-document pointer with fewer segments than the dialect's schema
\* location ('#/definitions' in a Swagger 2.0 document, '#/components' in
\* an OpenAPI 3 document) and a pointer to a missing target, it returns a
\* mapping, the target or an empty one.
C40_ResolveRefNeverRaises ==
    resolved.ref_path # <<>> =>
        (resolved.result = Gives(resolved.result.v) /\ resolved.result.v.k = "obj")

====
